---- MODULE Spec2Model ----
(***************************************************************************)
(* trosat.sunpos: the solar-position functions of the Astronomical Almanac *)
(* algorithm, as a state machine of calls.  A state is one call of a       *)
(* public function (the variable call) together with what the call         *)
(* returned or raised (the variable ret).                                  *)
(*                                                                         *)
(* Numbers.  A Python float is modelled in real arithmetic on a fixed      *)
(* grid: the integer v stands for the real v / Scale (days, degrees,       *)
(* radians or hours alike).  The rounding of IEEE doubles is not           *)
(* modelled.  An operation whose real result is off the grid rounds it to  *)
(* the nearest grid point.  NaN is one reserved value outside the grid.    *)
(* Unit conversions are first computed exactly, on rationals, and only     *)
(* their result is put on the grid.                                        *)
(***************************************************************************)
EXTENDS Integers, Sequences, FiniteSets, TLC

VARIABLES pc, call, ret

vars == <<pc, call, ret>>

(***************************************************************************)
(* Bounds of the model.                                                    *)
(***************************************************************************)
\* grid points per unit (per day, degree, radian, hour)
Scale == 1000
\* the longest list or array handed to a function
MaxLen == 2

(***************************************************************************)
(* Arithmetic on the grid.                                                 *)
(***************************************************************************)
NaN == -(2^30)

Abs(x) == IF x < 0 THEN -x ELSE x

Sign(x) == IF x < 0 THEN -1 ELSE IF x > 0 THEN 1 ELSE 0

RECURSIVE GCD(_, _)
GCD(a, b) == IF b = 0 THEN a ELSE GCD(b, a % b)

\* x * a / b rounded to the nearest integer (a >= 0, b > 0), computed
\* without leaving 32 bits: x = q*b + r, x*a/b = q*a + r*a/b.
MulDiv(x, a, b) ==
    LET q == x \div b
        r == x % b
    IN  q * a + ((2 * r * a + b) \div (2 * b))

\* the product of two grid numbers, on the grid
MulFP(a, b) == MulDiv(a, b, Scale)

isnan(a) == a = NaN

fadd(a, b) == IF isnan(a) \/ isnan(b) THEN NaN ELSE a + b

fsub(a, b) == IF isnan(a) \/ isnan(b) THEN NaN ELSE a - b

fmul(a, b) == IF isnan(a) \/ isnan(b) THEN NaN ELSE MulFP(a, b)


(***************************************************************************)
(* Exact rationals [n, d], d > 0, in lowest terms: the real arithmetic of  *)
(* the unit conversions.                                                   *)
(***************************************************************************)
Rat(n, d) ==
    LET g == GCD(Abs(n), d)
    IN  IF n = 0 THEN [n |-> 0, d |-> 1] ELSE [n |-> n \div g, d |-> d \div g]

\* r * a / b for integers a, b > 0, cancelling before multiplying
RatScale(r, a, b) ==
    LET g1 == GCD(Abs(r.n), b)
        g2 == GCD(a, r.d)
        n1 == IF r.n = 0 THEN 0 ELSE r.n \div g1
        b1 == IF r.n = 0 THEN 1 ELSE b \div g1
    IN  Rat(n1 * (a \div g2), (r.d \div g2) * b1)

\* <<quotient, remainder>> of r0 * a by b, for 0 <= r0 < b and a >= 0, by
\* doubling: no intermediate value exceeds 2 * b
RECURSIVE QuotRem(_, _, _)
QuotRem(r0, a, b) ==
    IF a = 0 THEN <<0, 0>>
    ELSE LET h  == QuotRem(r0, a \div 2, b)
             r2 == (2 * h[2]) % b
             r3 == r2 + (IF a % 2 = 1 THEN r0 ELSE 0)
         IN  <<2 * h[1] + ((2 * h[2]) \div b) + (r3 \div b), r3 % b>>

\* n * a / b rounded to the nearest integer, half away from zero
RoundDiv(n, a, b) ==
    LET m  == Abs(n)
        qr == QuotRem(m % b, a, b)
        v  == (m \div b) * a + qr[1] + (IF 2 * qr[2] >= b THEN 1 ELSE 0)
    IN  IF n < 0 THEN -v ELSE v

\* the decimal constant num/den of the source, on the grid
Const(num, den) == RoundDiv(num, Scale, den)

\* a * num/den for a decimal constant num/den of the source
fscale(a, num, den) == IF isnan(a) THEN NaN ELSE RoundDiv(a, num, den)

(***************************************************************************)
(* numpy's constants and elementwise functions, on the grid.               *)
(***************************************************************************)
\* np.pi: the rational PiNum / PiDen, on the grid; the functions and the
\* conversions below take this grid number for pi
PiNum == 355
PiDen == 113

pi == MulDiv(Scale, PiNum, PiDen)

TwoPi == 2 * pi

HalfPi == pi \div 2

\* sin on [0, pi/2] by its Taylor polynomial of degree 7
SinPoly(s) ==
    LET s2 == MulFP(s, s)
        s3 == MulFP(s2, s)
        s5 == MulFP(s3, s2)
        s7 == MulFP(s5, s2)
        p  == s - (s3 \div 6) + (s5 \div 120) - (s7 \div 5040)
    IN  IF p > Scale THEN Scale ELSE IF p < 0 THEN 0 ELSE p

\* np.sin: periodic with period 2 pi, odd about pi, even about pi/2
sin(x) ==
    IF isnan(x) THEN NaN
    ELSE LET r == x % TwoPi
             h == IF r >= pi THEN r - pi ELSE r
             s == IF h > pi - h THEN pi - h ELSE h
         IN  IF r >= pi THEN -SinPoly(s) ELSE SinPoly(s)

\* np.cos
cos(x) == IF isnan(x) THEN NaN ELSE sin(x + HalfPi)

\* the largest a in lo..hi with SinPoly(a) <= v
RECURSIVE SinInv(_, _, _)
SinInv(v, lo, hi) ==
    IF lo >= hi THEN lo
    ELSE LET mid == (lo + hi + 1) \div 2
         IN  IF SinPoly(mid) <= v THEN SinInv(v, mid, hi) ELSE SinInv(v, lo, mid - 1)

\* np.arcsin: into [-pi/2, pi/2], NaN outside [-1, 1]
arcsin(v) ==
    IF isnan(v) \/ v > Scale \/ v < -Scale THEN NaN
    ELSE IF v < 0 THEN -SinInv(-v, 0, HalfPi) ELSE SinInv(v, 0, HalfPi)

\* arctan on [0, 1]: pi/4 r + r (1 - r) (0.2447 + 0.0663 r)
AtanUnit(r) ==
    MulDiv(r, pi, 4 * Scale)
        + MulFP(MulFP(r, Scale - r), Const(2447, 10000) + MulDiv(r, 663, 10000))

\* np.arccos: into [0, pi], NaN outside [-1, 1]
arccos(v) ==
    IF isnan(v) \/ v > Scale \/ v < -Scale THEN NaN
    ELSE IF v < 0 THEN pi - (HalfPi - SinInv(-v, 0, HalfPi))
    ELSE HalfPi - SinInv(v, 0, HalfPi)

\* np.inf, above every grid number, and -inf below
inf == 2^30 - 1

\* the quotient of two grid numbers: numpy's float64 division, which raises
\* nothing: x/0 is inf or -inf, 0/0 is NaN
fdiv(a, b) ==
    IF isnan(a) \/ isnan(b) \/ (a = 0 /\ b = 0) THEN NaN
    ELSE IF b = 0 THEN Sign(a) * inf
    ELSE Sign(b) * RoundDiv(a, Scale, Abs(b))

\* np.arctan2: the angle of the point (x, y), in [-pi, pi]; y is finite
arctan2(y, x) ==
    IF isnan(y) \/ isnan(x) THEN NaN
    ELSE IF x = 0 /\ y = 0 THEN 0
    ELSE IF x = inf THEN 0
    ELSE IF x = -inf THEN (IF y < 0 THEN -pi ELSE pi)
    ELSE LET ay == Abs(y)
             ax == Abs(x)
             a  == IF ay <= ax THEN AtanUnit(MulDiv(ay, Scale, ax))
                   ELSE HalfPi - AtanUnit(MulDiv(ax, Scale, ay))
             b  == IF x < 0 THEN pi - a ELSE a
         IN  IF y < 0 THEN -b ELSE b

\* a remainder that takes NaN for 0
remainder_zero(a, m) == IF isnan(a) THEN 0 ELSE a % m

\* np.remainder(a, m) for m > 0: the result has the sign of m
remainder(a, m) == IF isnan(a) THEN NaN ELSE a % m

(***************************************************************************)
(* Python values.  Every value is a record with its type in the field t.   *)
(* A str is the sequence of its characters; a float holds a grid number;   *)
(* an ndarray holds its dtype kind and the sequence of its elements (grid  *)
(* numbers for kind "f", integers for "i", in the field v; values in the   *)
(* field items for the other kinds: datetime64 for "M", bools for "b",     *)
(* strs for "U", any for "O"); a raised exception is a value of type       *)
(* "raise".  Values of different types have different fields.              *)
(***************************************************************************)
None == [t |-> "None"]

Float(v) == [t |-> "float", v |-> v]

PyInt(v) == [t |-> "int", v |-> v]

Bool(b) == [t |-> "bool", b |-> b]

\* a numpy integer scalar
Int64(v) == [t |-> "int64", v |-> v]

Str(s) == [t |-> "str", chars |-> s]

Dict == [t |-> "dict"]

Object == [t |-> "object"]

List(s) == [t |-> "list", items |-> s]

NDArray(kind, s) ==
    IF kind \in {"f", "i"} THEN [t |-> "ndarray", kind |-> kind, v |-> s]
    ELSE [t |-> "ndarray", kind |-> kind, items |-> s]

Raise(exc, msg) == [t |-> "raise", exc |-> exc, msg |-> msg]

IsExc(x) == x.t = "raise"

\* the sequence s with Op applied to each element
SeqMap(Op(_), s) == [i \in DOMAIN s |-> Op(s[i])]

\* a number as numpy's arithmetic takes it: a float, a Python int, or an
\* array of floats or ints
IsScalarNum(x) == x.t \in {"float", "int"}

IsArrayNum(x) == x.t = "ndarray" /\ x.kind \in {"f", "i"}

ScalarOf(x) == IF x.t = "int" THEN x.v * Scale ELSE x.v

ElemsOf(x) == IF x.kind = "i" THEN [i \in DOMAIN x.v |-> x.v[i] * Scale] ELSE x.v

\* a ufunc of one argument: elementwise, an exception in the argument
\* propagates, a value that is no number is a TypeError
Map1(Op(_), x) ==
    IF IsExc(x) THEN x
    ELSE IF IsScalarNum(x) THEN Float(Op(ScalarOf(x)))
    ELSE IF IsArrayNum(x) THEN NDArray("f", SeqMap(Op, ElemsOf(x)))
    ELSE Raise("TypeError", "unsupported operand type")

\* a binary operation with numpy's broadcasting: a scalar or an array of
\* length 1 is stretched, arrays of equal length go elementwise, any other
\* pair of lengths is the broadcast ValueError
Map2(Op(_, _), x, y) ==
    IF IsExc(x) THEN x
    ELSE IF IsExc(y) THEN y
    ELSE IF ~(IsScalarNum(x) \/ IsArrayNum(x)) \/ ~(IsScalarNum(y) \/ IsArrayNum(y))
        THEN Raise("TypeError", "unsupported operand type")
    ELSE IF IsScalarNum(x) /\ IsScalarNum(y) THEN Float(Op(ScalarOf(x), ScalarOf(y)))
    ELSE IF IsScalarNum(y)
        THEN NDArray("f", [i \in DOMAIN x.v |-> Op(ElemsOf(x)[i], ScalarOf(y))])
    ELSE IF IsScalarNum(x)
        THEN NDArray("f", [i \in DOMAIN y.v |-> Op(ScalarOf(x), ElemsOf(y)[i])])
    ELSE IF Len(x.v) = Len(y.v)
        THEN NDArray("f", [i \in DOMAIN x.v |-> Op(ElemsOf(x)[i], ElemsOf(y)[i])])
    ELSE IF Len(y.v) = 1
        THEN NDArray("f", [i \in DOMAIN x.v |-> Op(ElemsOf(x)[i], ElemsOf(y)[1])])
    ELSE IF Len(x.v) = 1
        THEN NDArray("f", [i \in DOMAIN y.v |-> Op(ElemsOf(x)[1], ElemsOf(y)[i])])
    ELSE Raise("ValueError", "operands could not be broadcast together")

\* bool(x), as the `if x` of Python takes it
truth(x) ==
    IF IsExc(x) THEN x
    ELSE IF x.t = "None" THEN Bool(FALSE)
    ELSE IF x.t = "bool" THEN x
    ELSE IF x.t \in {"float", "int"} THEN Bool(x.v # 0)
    ELSE IF x.t = "list" THEN Bool(Len(x.items) > 0)
    ELSE IF x.t = "str" THEN Bool(Len(x.chars) > 0)
    ELSE IF IsArrayNum(x)
        THEN IF Len(x.v) = 0 THEN Bool(FALSE)
             ELSE IF Len(x.v) = 1 THEN Bool(x.v[1] # 0)
             ELSE Raise("ValueError", "The truth value of an array with more than one element is ambiguous")
    ELSE Bool(TRUE)

(***************************************************************************)
(* The units enum and to_units.                                            *)
(***************************************************************************)
DEG == 1
RAD == 2
HR == 3

\* a member of the IntEnum units
Unit(v) == [t |-> "units", v |-> v]

\* the name D, DEG, DEGREES, ... as a str
Name(s) == Str(s)

\* str.upper(), character by character
UpperChar(c) ==
    CASE c = "a" -> "A" [] c = "d" -> "D" [] c = "e" -> "E" [] c = "g" -> "G"
      [] c = "h" -> "H" [] c = "i" -> "I" [] c = "n" -> "N" [] c = "o" -> "O"
      [] c = "r" -> "R" [] c = "s" -> "S" [] c = "u" -> "U" [] c = "f" -> "F"
      [] OTHER -> c

upper(s) == [i \in DOMAIN s |-> UpperChar(s[i])]

\* units.__members__: every name and alias of the enum
members ==
    [k \in { <<"D", "E", "G", "R", "E", "E", "S">>, <<"D", "E", "G">>, <<"D">>,
             <<"R", "A", "D", "I", "A", "N", "S">>, <<"R", "A", "D">>, <<"R">>,
             <<"H", "O", "U", "R", "S">>, <<"H", "R">>, <<"H">> } |->
        IF k[1] = "D" THEN DEG ELSE IF k[1] = "R" THEN RAD ELSE HR]

\* `u == e` for a units argument u and a member e of the enum: an IntEnum
\* equals the int of its value, and never a str
UnitEq(u, e) == u.t \in {"units", "int"} /\ u.v = e

\* from_units if not isinstance(from_units, str) else units.__members__[from_units.upper()]
lookup(u) ==
    IF u.t # "str" THEN u
    ELSE IF upper(u.chars) \in DOMAIN members THEN Unit(members[upper(u.chars)])
    ELSE Raise("KeyError", "units.__members__")

\* the conversions with an hour of 12 degrees
mapfun_hour12(f, t, r) ==
    CASE f = DEG /\ t = RAD -> RatScale(r, pi, 180 * Scale)
      [] f = DEG /\ t = HR  -> RatScale(r, 1, 12)
      [] f = RAD /\ t = DEG -> RatScale(r, 180 * Scale, pi)
      [] f = RAD /\ t = HR  -> RatScale(RatScale(r, 12, 1), Scale, pi)
      [] f = HR /\ t = DEG  -> RatScale(r, 12, 1)
      [] f = HR /\ t = RAD  -> RatScale(RatScale(r, 1, 12), pi, Scale)

\* the six conversions of mapfun, in exact arithmetic on the rational r
mapfun(f, t, r) ==
    CASE f = DEG /\ t = RAD -> RatScale(r, pi, 180 * Scale)
      [] f = DEG /\ t = HR  -> RatScale(r, 1, 15)
      [] f = RAD /\ t = DEG -> RatScale(r, 180 * Scale, pi)
      [] f = RAD /\ t = HR  -> RatScale(RatScale(r, 12, 1), Scale, pi)
      [] f = HR /\ t = DEG  -> RatScale(r, 15, 1)
      [] f = HR /\ t = RAD  -> RatScale(RatScale(r, 1, 12), pi, Scale)

\* one conversion applied to a grid number: the conversions are linear, so
\* the result is v times the image of 1, rounded to the grid
convert(f, t, v) ==
    IF isnan(v) THEN NaN
    ELSE RoundDiv(v, mapfun(f, t, Rat(1, 1)).n, mapfun(f, t, Rat(1, 1)).d)

HasKey(f, t) ==
    /\ f.t \in {"units", "int"} /\ t.t \in {"units", "int"}
    /\ f.v \in {DEG, RAD, HR} /\ t.v \in {DEG, RAD, HR}

\* line 93: x if from_units==to_units else mapfun[(from_units, to_units)](x),
\* for the two units f and g the lookup gave
to_units_of(x, f, g) ==
    IF IsExc(x) THEN x
    ELSE IF IsExc(f) \/ IsExc(g)
        THEN Raise("TypeError", "Invalid type for units argument")
    ELSE IF f.t = g.t /\ f = g THEN x
    ELSE IF f.t \in {"units", "int"} /\ g.t \in {"units", "int"} /\ f.v = g.v THEN x
    ELSE IF ~HasKey(f, g) THEN Raise("KeyError", "mapfun")
    ELSE Map1(LAMBDA v : convert(f.v, g.v, v), x)

to_units(x, from_units, to) == to_units_of(x, lookup(from_units), lookup(to))

\* the return of the unit-aware functions: x if units==U else to_units(x, U, units)
return_units(x, U, units) == IF UnitEq(units, U) THEN x ELSE to_units(x, Unit(U), units)

\* np.deg2rad and np.rad2deg
\* degrees taken for radians
deg2rad_none(x) == Map1(LAMBDA v : v, x)

deg2rad(x) == Map1(LAMBDA v : convert(DEG, RAD, v), x)

rad2deg(x) == Map1(LAMBDA v : convert(RAD, DEG, v), x)

(***************************************************************************)
(* Timestamps.  A datetime.datetime (naive, taken as UTC) holds its        *)
(* seconds, and a np.datetime64 its count of units D, h, m or s, both      *)
(* counted from 2000-01-01T00:00; NaT is the count NaN.                    *)
(***************************************************************************)
Datetime(s) == [t |-> "datetime", s |-> s]

Datetime64(unit, n) == [t |-> "datetime64", unit |-> unit, n |-> n]

Timedelta64(unit, n) == [t |-> "timedelta64", unit |-> unit, n |-> n]

SecPer(unit) ==
    CASE unit = "D" -> 86400 [] unit = "h" -> 3600 [] unit = "m" -> 60 [] unit = "s" -> 1

\* the finer of two units: the unit of a difference or of a mixed array
Finer(u1, u2) == IF SecPer(u1) <= SecPer(u2) THEN u1 ELSE u2

\* the count of d in the finer unit u
CountIn(d, u) == IF isnan(d.n) THEN NaN ELSE d.n * (SecPer(d.unit) \div SecPer(u))

\* the midnight before the epoch
EPOCH_midnight == Datetime64("m", 0)

\* np.datetime64('2000-01-01T12:00'): minutes
EPOCH_JD2000_0 == Datetime64("m", 12 * 60)

\* np.timedelta64(1, 'D')
ONE_DAY == Timedelta64("D", 1)

\* datetime64 - datetime64: a timedelta64 in the finer unit
dt64_sub(a, b) ==
    LET u == Finer(a.unit, b.unit)
    IN  Timedelta64(u, fsub(CountIn(a, u), CountIn(b, u)))

\* timedelta64 / timedelta64: a float, the quotient of the two spans
td_div(a, b) ==
    IF isnan(a.n) THEN NaN
    ELSE RoundDiv(a.n * SecPer(a.unit), Scale, b.n * SecPer(b.unit))

\* datetime64.item(): the datetime.datetime of the same instant
item(d) == Datetime(d.n * SecPer(d.unit))

\* (time - epoch.item()).total_seconds() / 86400.0
datetime_days(time, epoch) == RoundDiv(time.s - item(epoch).s, Scale, 86400)

\* (time - epoch) / ONE_DAY for one datetime64
datetime64_days(time, epoch) == td_div(dt64_sub(time, epoch), ONE_DAY)

\* the finest unit among the datetime64 elements of s
RECURSIVE FinestUnit(_)
FinestUnit(s) ==
    IF Len(s) = 1 THEN s[1].unit ELSE Finer(s[1].unit, FinestUnit(Tail(s)))

\* np.array(x) of a list, a str, a dict or an array: the dtype kind is
\* "f" for floats (ints among them become floats, the empty list is
\* float), "i" for ints, "b" for bools, "M" for datetime64 (in their
\* finest unit), "U" for strs and "O" for anything else; a str or a dict
\* is one element
np_array(x) ==
    IF x.t = "ndarray" THEN x
    ELSE IF x.t = "str" THEN NDArray("U", <<x>>)
    ELSE IF x.t # "list" THEN NDArray("O", <<x>>)
    ELSE LET s == x.items
             ts == {s[i].t : i \in DOMAIN s}
         IN  IF ts = {} \/ ("float" \in ts /\ ts \subseteq {"float", "int", "bool"})
                 THEN NDArray("f", [i \in DOMAIN s |->
                          IF s[i].t = "bool" THEN (IF s[i].b THEN Scale ELSE 0)
                          ELSE ScalarOf(s[i])])
             ELSE IF "int" \in ts /\ ts \subseteq {"int", "bool"}
                 THEN NDArray("i", [i \in DOMAIN s |->
                          IF s[i].t = "bool" THEN (IF s[i].b THEN 1 ELSE 0) ELSE s[i].v])
             ELSE IF ts = {"datetime64"}
                 THEN NDArray("M", [i \in DOMAIN s |->
                          Datetime64(FinestUnit(s), CountIn(s[i], FinestUnit(s)))])
             ELSE IF ts = {"bool"} THEN NDArray("b", s)
             ELSE IF ts = {"str"} THEN NDArray("U", s)
             ELSE NDArray("O", s)

\* one element of an object array as a datetime64: a datetime or a
\* datetime64 converts, None is NaT, any other object cannot be converted
as_M8(e) ==
    IF e.t = "datetime" THEN Datetime64("s", e.s)
    ELSE IF e.t = "datetime64" THEN e
    ELSE IF e.t = "None" THEN Datetime64("s", NaN)
    ELSE Raise("ValueError", "Could not convert object to NumPy datetime")

\* ndarray.astype('M8') of an object array
astype_M8(a) ==
    LET c == SeqMap(as_M8, a.items)
    IN  IF \E i \in DOMAIN c : IsExc(c[i])
            THEN Raise("ValueError", "Could not convert object to NumPy datetime")
        ELSE NDArray("M", c)

\* every element taken for the first one
array_days_first(a, epoch) ==
    IF IsExc(a) THEN a
    ELSE NDArray("f", [i \in DOMAIN a.items |-> datetime64_days(a.items[1], epoch)])

\* (time - epoch) / ONE_DAY for an array of datetime64
array_days(a, epoch) ==
    IF IsExc(a) THEN a
    ELSE NDArray("f", [i \in DOMAIN a.items |-> datetime64_days(a.items[i], epoch)])

\* isinstance(time, (Iterable, Sequence))
IsIterable(x) == x.t \in {"list", "str", "dict", "ndarray"}

\* lines 131-139: the array a by its dtype kind, or the TypeError
julday_of_array(a, epoch) ==
    IF a.t = "ndarray" /\ a.kind = "f" THEN a
    ELSE IF a.t = "ndarray" /\ a.kind = "O" THEN array_days(astype_M8(a), epoch)
    ELSE IF a.t = "ndarray" /\ a.kind = "M" THEN array_days(a, epoch)
    ELSE Raise("TypeError", "Type of time argument not supported")

\* to_julday that takes an int or a bool as a day count
to_julday_number(time, epoch) ==
    IF IsExc(time) THEN time
    ELSE IF time.t \in {"float", "int", "int64", "bool"} THEN time
    ELSE IF time.t = "datetime" THEN Float(datetime_days(time, epoch))
    ELSE IF time.t = "datetime64" THEN Float(datetime64_days(time, epoch))
    ELSE julday_of_array(IF IsIterable(time) THEN np_array(time) ELSE time, epoch)

\* an exception raised while the argument was computed is the result
to_julday(time, epoch) ==
    IF IsExc(time) THEN time
    ELSE IF time.t = "float" THEN time
    ELSE IF time.t = "datetime" THEN Float(datetime_days(time, epoch))
    ELSE IF time.t = "datetime64" THEN Float(datetime64_days(time, epoch))
    ELSE julday_of_array(IF IsIterable(time) THEN np_array(time) ELSE time, epoch)

(***************************************************************************)
(* The ephemeris functions.  A local variable of the source that is used   *)
(* more than once is the parameter of a helper operator here.              *)
(***************************************************************************)
Tuple(a, b) == IF IsExc(a) THEN a ELSE IF IsExc(b) THEN b ELSE [t |-> "tuple", items |-> <<a, b>>]

\* L = 280.460 + 0.9856474*jd
mean_longitude(jd) ==
    Map1(LAMBDA v : fadd(Const(280460, 1000), fscale(v, 9856474, 10000000)), jd)

\* g = np.deg2rad(357.528 + 0.9856003*jd)
mean_anomaly(jd) ==
    deg2rad(Map1(LAMBDA v : fadd(Const(357528, 1000), fscale(v, 9856003, 10000000)), jd))

\* the longitude as the sum of its terms, not reduced
longitude_sum(L, g) ==
    Map2(fadd, Map2(fadd, L, Map1(LAMBDA v : fscale(sin(v), 1915, 1000), g)),
         Map1(LAMBDA v : fscale(sin(fscale(v, 2, 1)), 20, 1000), g))

\* l = L + 1.915*sin(g)+0.020*sin(2.0*g); l = np.remainder(l, 360.0)
longitude_of(L, g) ==
    Map1(LAMBDA v : remainder(v, Const(360, 1)),
         Map2(fadd, Map2(fadd, L, Map1(LAMBDA v : fscale(sin(v), 1915, 1000), g)),
              Map1(LAMBDA v : fscale(sin(fscale(v, 2, 1)), 20, 1000), g)))

ecliptic_longitude_jd(jd) == longitude_of(mean_longitude(jd), mean_anomaly(jd))

ecliptic_longitude(time, units) ==
    return_units(ecliptic_longitude_jd(to_julday(time, EPOCH_JD2000_0)), DEG, units)

\* ep = 23.439 - 0.0000004*jd
obliquity_of_ecliptic(time, units) ==
    return_units(Map1(LAMBDA v : fsub(Const(23439, 1000), fscale(v, 4, 10000000)),
                      to_julday(time, EPOCH_JD2000_0)), DEG, units)

\* l = np.remainder(l+pi, 2.0*pi)-pi
\* a reduction into [-pi/2, pi/2)
reduce_l_half(l) == Map1(LAMBDA v : fsub(remainder(fadd(v, HalfPi), pi), HalfPi), l)

reduce_l(l) == Map1(LAMBDA v : fsub(remainder(fadd(v, pi), TwoPi), pi), l)

\* ra = arctan2(cos_ep*sin(l),cos(l))
ra_of(cos_ep, l) ==
    Map2(arctan2, Map2(fmul, cos_ep, Map1(sin, l)), Map1(cos, l))

\* dec = arcsin(sin_ep*sin(l))
dec_of(sin_ep, l) == Map1(arcsin, Map2(fmul, sin_ep, Map1(sin, l)))

\* only both of l and ep missing count
missing_arguments_both(time, l, ep) == time.t = "None" /\ (l.t = "None" /\ ep.t = "None")

\* time is None and (l is None or ep is None)
missing_arguments(time, l, ep) == time.t = "None" /\ (l.t = "None" \/ ep.t = "None")

\* lines 212-214 and 221-224: the right ascension of the day count jd
right_ascension_jd(jd) ==
    ra_of(Map1(cos, obliquity_of_ecliptic(jd, Unit(RAD))),
          reduce_l(ecliptic_longitude(jd, Unit(RAD))))

\* lines 218-224: the right ascension of l and ep in degrees
right_ascension_lep(l, ep) == ra_of(Map1(cos, deg2rad(ep)), reduce_l(deg2rad(l)))

right_ascension(time, l, ep, units) ==
    IF missing_arguments(time, l, ep)
        THEN Raise("ValueError", "time is None, so l and ep needed as arguments")
    ELSE return_units(IF time.t # "None"
                        THEN right_ascension_jd(to_julday(time, EPOCH_JD2000_0))
                        ELSE right_ascension_lep(l, ep),
                      RAD, units)

\* lines 251-253 and 259: the declination of the day count jd
declination_jd(jd) ==
    dec_of(Map1(sin, obliquity_of_ecliptic(jd, Unit(RAD))), ecliptic_longitude(jd, Unit(RAD)))

\* lines 257-259: the declination of l and ep in degrees
declination_lep(l, ep) == dec_of(Map1(sin, deg2rad(ep)), deg2rad(l))

declination(time, l, ep, units) ==
    IF missing_arguments(time, l, ep)
        THEN Raise("ValueError", "time is None, so l and ep needed as arguments")
    ELSE return_units(IF time.t # "None"
                        THEN declination_jd(to_julday(time, EPOCH_JD2000_0))
                        ELSE declination_lep(l, ep),
                      RAD, units)

\* lines 283-285: (dec, ra) of the obliquity ep and the reduced longitude l
celestial_pair(ep, l, units) ==
    Tuple(return_units(dec_of(Map1(sin, ep), l), RAD, units),
          return_units(ra_of(Map1(cos, ep), l), RAD, units))

\* lines 280-282
celestial_coordinates_jd(jd, units) ==
    celestial_pair(obliquity_of_ecliptic(jd, Unit(RAD)),
                   reduce_l(ecliptic_longitude(jd, Unit(RAD))), units)

celestial_coordinates(time, units) ==
    celestial_coordinates_jd(to_julday(time, EPOCH_JD2000_0), units)

\* the sidereal time with the hours of the day counted from noon
gmst_of_noon(jd) ==
    Map2(fadd,
         Map1(LAMBDA v : fadd(Const(6697375, 1000000), fscale(v, 65709824, 1000000000)), jd),
         Map1(LAMBDA v : fscale(remainder(v, Const(1, 1)), 24, 1), jd))

\* hh = np.remainder(jd-0.5,1.0)*24.0; gmst = 6.697375 + 0.0657098242*jd + hh
gmst_of(jd) ==
    Map2(fadd,
         Map1(LAMBDA v : fadd(Const(6697375, 1000000), fscale(v, 65709824, 1000000000)), jd),
         Map1(LAMBDA v : fscale(remainder(fsub(v, Const(5, 10)), Const(1, 1)), 24, 1), jd))

\* lines 314-318, iflon being bool(lon):
\* mst = gmst+lon/15.0 if lon else gmst; mst = np.remainder(mst,24.0)
local_mst(gmst, lon, iflon, units) ==
    IF IsExc(gmst) THEN gmst
    ELSE IF IsExc(iflon) THEN iflon
    ELSE return_units(Map1(LAMBDA v : remainder(v, Const(24, 1)),
                           IF iflon.b
                             THEN Map2(fadd, gmst, Map1(LAMBDA v : fscale(v, 1, 15), lon))
                             ELSE gmst),
                      HR, units)

mean_sidereal_time(time, lon, units) ==
    local_mst(gmst_of(to_julday(time, EPOCH_JD2000_0)), lon, truth(lon), units)

\* the difference of sidereal time and right ascension, not reduced
ha_of_plain(mst, ra) == Map2(fsub, mst, ra)

\* ha = np.remainder((mst-ra)+12.0, 24.0)-12.0
ha_of(mst, ra) ==
    Map1(LAMBDA v : fsub(remainder(fadd(v, Const(12, 1)), Const(24, 1)), Const(12, 1)),
         Map2(fsub, mst, ra))

\* the difference taken the other way round: ra - gmst
equation_of_time_swapped(time, units) ==
    return_units(ha_of(right_ascension(time, None, None, Unit(HR)),
                       mean_sidereal_time(time, None, Unit(HR))), HR, units)

\* lines 321-325
equation_of_time(time, units) ==
    return_units(ha_of(mean_sidereal_time(time, None, Unit(HR)),
                       right_ascension(time, None, None, Unit(HR))), HR, units)

\* lines 345-346: the equation of time is computed in hours, whatever the
\* units, and dropped; an exception it raises goes through
apparent_time(time, lon, units) ==
    IF IsExc(equation_of_time(time, Unit(HR))) THEN equation_of_time(time, Unit(HR))
    ELSE None

\* return ha if units==HR else to_units(ha, HR, DEG)
hour_angle_return(ha, units) ==
    IF UnitEq(units, HR) THEN ha ELSE to_units(ha, Unit(HR), Unit(DEG))

\* hour_angle that takes the right ascension in hours as it is
hour_angle_ra_hours(time, lon, mst, ra, units) ==
    hour_angle_return(IF time.t # "None"
                        THEN ha_of(mean_sidereal_time(time, lon, Unit(HR)),
                                   right_ascension(time, None, None, Unit(HR)))
                        ELSE ha_of(mst, ra),
                      units)

hour_angle(time, lon, mst, ra, units) ==
    hour_angle_return(IF time.t # "None"
                        THEN ha_of(mean_sidereal_time(time, lon, Unit(HR)),
                                   right_ascension(time, None, None, Unit(HR)))
                        ELSE ha_of(mst, to_units(ra, Unit(RAD), Unit(HR))),
                      units)

\* -x of numpy
fneg(a) == IF isnan(a) THEN NaN ELSE -a

\* the sine of the hour angle with the longitude counted to the west
sin_ha_west(gha, lon) ==
    Map2(fsub, Map2(fmul, Map1(sin, gha), Map1(cos, lon)),
         Map2(fmul, Map1(cos, gha), Map1(sin, lon)))

\* sin_ha = sin_gha*cos_lon + cos_gha*sin_lon
sin_ha_of(gha, lon) ==
    Map2(fadd, Map2(fmul, Map1(sin, gha), Map1(cos, lon)),
         Map2(fmul, Map1(cos, gha), Map1(sin, lon)))

\* cos_ha = cos_gha*cos_lon - sin_gha*sin_lon
cos_ha_of(gha, lon) ==
    Map2(fsub, Map2(fmul, Map1(cos, gha), Map1(cos, lon)),
         Map2(fmul, Map1(sin, gha), Map1(sin, lon)))

\* mu0 = sin_dec*sin_lat + cos_dec*cos_lat*cos_ha
mu0_of(dec, lat, cos_ha) ==
    Map2(fadd, Map2(fmul, Map1(sin, dec), Map1(sin, lat)),
         Map2(fmul, Map2(fmul, Map1(cos, dec), Map1(cos, lat)), cos_ha))

\* the quotient by a cosine of the grid that is taken for exact: 0/0 is NaN
div_exact(a, c) == fdiv(a, c)

\* the quotient by cos_lat.  No double is an odd multiple of pi/2, so
\* np.cos returns no zero: np.cos(np.deg2rad(90.0)) is 6.1e-17, for -90.0
\* too.  Where the cosine of the grid is 0, cos_lat is that positive number
\* below the grid, and the quotient is 0, inf or -inf by the numerator.
div_cos(a, c) ==
    IF isnan(a) \/ isnan(c) THEN NaN
    ELSE IF c = 0 THEN Sign(a) * inf
    ELSE fdiv(a, c)

\* cos_azi = (sin_dec-mu0*sin_lat)/cos_lat
cos_azi_of(dec, lat, mu0) ==
    Map2(div_cos, Map2(fsub, Map1(sin, dec), Map2(fmul, mu0, Map1(sin, lat))),
         Map1(cos, lat))

\* azi = arctan2(sin_azi,cos_azi); azi = np.remainder(azi,2.0*pi)
azi_of(sin_azi, cos_azi) ==
    Map1(LAMBDA v : remainder(v, TwoPi), Map2(arctan2, sin_azi, cos_azi))

\* lines 427-438: zen, sin_azi = -cos_dec*sin_ha, azi, and the return
sun_angles_mu0(mu0, sin_ha, dec, lat, units) ==
    Tuple(return_units(Map1(arccos, mu0), RAD, units),
          return_units(azi_of(Map2(fmul, Map1(fneg, Map1(cos, dec)), sin_ha),
                              cos_azi_of(dec, lat, mu0)),
                       RAD, units))

\* lines 417-424: the Greenwich hour angle gha and the local hour angle
sun_angles_gha(gha, dec, lat, lon, units) ==
    sun_angles_mu0(mu0_of(dec, lat, cos_ha_of(gha, lon)), sin_ha_of(gha, lon),
                   dec, lat, units)

\* lines 409-417: cel is the pair (dec, ra) of celestial_coordinates
sun_angles_cel(gmst, cel, lat, lon, units) ==
    IF IsExc(gmst) THEN gmst
    ELSE IF IsExc(cel) THEN cel
    ELSE sun_angles_gha(Map2(fsub, gmst, cel.items[2]), cel.items[1], lat, lon, units)

sun_angles(time, lat, lon, units) ==
    sun_angles_cel(mean_sidereal_time(time, None, Unit(RAD)),
                   celestial_coordinates(time, Unit(RAD)),
                   deg2rad(lat), deg2rad(lon), units)

\* 1.00014-0.01671*cos(g)+0.00014*cos(2.0*g)
distance_of(g) ==
    Map2(fadd,
         Map1(LAMBDA v : fsub(Const(100014, 100000), fscale(cos(v), 1671, 100000)), g),
         Map1(LAMBDA v : fscale(cos(fscale(v, 2, 1)), 14, 100000), g))

earth_sun_distance(time) == distance_of(mean_anomaly(to_julday(time, EPOCH_JD2000_0)))

(***************************************************************************)
(* pathutil.  A str is the sequence of its characters; a mapping (the      *)
(* environment, the keyword arguments) is a function from names to strs.   *)
(***************************************************************************)
\* str.lower(), character by character
LowerChar(c) ==
    CASE c = "A" -> "a" [] c = "D" -> "d" [] c = "E" -> "e" [] c = "G" -> "g"
      [] c = "H" -> "h" [] c = "I" -> "i" [] c = "N" -> "n" [] c = "O" -> "o"
      [] c = "R" -> "r" [] c = "S" -> "s" [] c = "U" -> "u" [] c = "F" -> "f"
      [] OTHER -> c

lower(s) == [i \in DOMAIN s |-> LowerChar(s[i])]

\* a character with an upper and a lower case
IsCased(c) == UpperChar(c) # c \/ LowerChar(c) # c

\* str.title(): a cased character after an uncased one is raised, after a
\* cased one lowered
title(s) ==
    [i \in DOMAIN s |->
        IF i > 1 /\ IsCased(s[i - 1]) THEN LowerChar(s[i]) ELSE UpperChar(s[i])]

\* str.capitalize(): the first character raised, the others lowered
capitalize(s) ==
    [i \in DOMAIN s |-> IF i = 1 THEN UpperChar(s[i]) ELSE LowerChar(s[i])]

\* repr() of a str without quotes or backslashes
repr(s) == <<"'">> \o s \o <<"'">>

\* \w under re.ASCII: the characters of the model that are no letter, digit
\* or underscore are these
NonWord == {"/", "~", "{", "}", "$", "[", "]", "!", " ", ".", "'"}

IsWord(c) == c \notin NonWord

RECURSIVE word_end(_, _)
\* the position after the longest run of \w from position i of s on
word_end(s, i) ==
    IF i <= Len(s) /\ IsWord(s[i]) THEN word_end(s, i + 1) ELSE i

NoMatch == [end |-> 0, name |-> <<>>]

\* _regex_var matched at position i of s: the position after the match and
\* group 2, or NoMatch.  \$(\{)?(\w+)(?(1)\}): with the brace the name must
\* be followed by the closing brace
regex_var(s, i) ==
    IF s[i] # "$" THEN NoMatch
    ELSE IF i < Len(s) /\ s[i + 1] = "{"
    THEN IF /\ word_end(s, i + 2) > i + 2
            /\ word_end(s, i + 2) <= Len(s)
            /\ s[word_end(s, i + 2)] = "}"
         THEN [end |-> word_end(s, i + 2) + 1,
               name |-> SubSeq(s, i + 2, word_end(s, i + 2) - 1)]
         ELSE NoMatch
    ELSE IF word_end(s, i + 1) > i + 1
    THEN [end |-> word_end(s, i + 1), name |-> SubSeq(s, i + 1, word_end(s, i + 1) - 1)]
    ELSE NoMatch

RECURSIVE expandvars_from(_, _, _)
\* _regex_var.sub from position i on: the matches are replaced from left to
\* right, the replacement is not scanned again
expandvars_from(s, env, i) ==
    IF i > Len(s) THEN <<>>
    ELSE IF regex_var(s, i).end = 0 THEN <<s[i]>> \o expandvars_from(s, env, i + 1)
    ELSE (IF regex_var(s, i).name \in DOMAIN env
          THEN env[regex_var(s, i).name]
          ELSE SubSeq(s, i, regex_var(s, i).end - 1))
         \o expandvars_from(s, env, regex_var(s, i).end)

expandvars(s, env) == expandvars_from(s, env, 1)

\* collections.ChainMap(a, b): a key is looked up in a first
ChainMap(a, b) ==
    [k \in DOMAIN a \cup DOMAIN b |-> IF k \in DOMAIN a THEN a[k] ELSE b[k]]

RECURSIVE find(_, _, _)
\* str.find(c, i): the first position of c in s from i on, Len(s) + 1 if
\* there is none
find(s, c, i) == IF i > Len(s) \/ s[i] = c THEN i ELSE find(s, c, i + 1)

RECURSIVE rstrip(_)
\* str.rstrip('/')
rstrip(s) ==
    IF s # <<>> /\ s[Len(s)] = "/" THEN rstrip(SubSeq(s, 1, Len(s) - 1)) ELSE s

HOME == <<"H", "O", "M", "E">>

\* the home directory of the password database, for a process without HOME
pw_dir == <<"/", "r">>

\* os.path.expanduser: a leading ~ up to the first slash is replaced by the
\* home directory; ~name names a user, and the password database knows
\* none of the names of the model
expanduser(path, environ) ==
    IF path = <<>> \/ path[1] # "~" THEN path
    ELSE IF find(path, "/", 2) # 2 THEN path
    ELSE IF rstrip(IF HOME \in DOMAIN environ THEN environ[HOME] ELSE pw_dir)
                \o SubSeq(path, 2, Len(path)) = <<>>
    THEN <<"/">>
    ELSE rstrip(IF HOME \in DOMAIN environ THEN environ[HOME] ELSE pw_dir)
            \o SubSeq(path, 2, Len(path))

RECURSIVE path_parts(_, _, _)
\* the components of s from position i on, cur being the one in progress:
\* empty components and "." are dropped
path_parts(s, i, cur) ==
    IF i > Len(s) THEN (IF cur \in {<<>>, <<".">>} THEN <<>> ELSE <<cur>>)
    ELSE IF s[i] = "/"
    THEN (IF cur \in {<<>>, <<".">>} THEN <<>> ELSE <<cur>>) \o path_parts(s, i + 1, <<>>)
    ELSE path_parts(s, i + 1, Append(cur, s[i]))

\* pathlib.Path(x) on POSIX: the root (exactly two leading slashes are
\* kept) and the components; an exception in the argument goes through
Path(x) ==
    IF IsExc(x) THEN x
    ELSE [t |-> "path",
          root |-> IF x.chars = <<>> \/ x.chars[1] # "/" THEN <<>>
                   ELSE IF /\ Len(x.chars) >= 2 /\ x.chars[2] = "/"
                           /\ (Len(x.chars) = 2 \/ x.chars[3] # "/")
                   THEN <<"/", "/">>
                   ELSE <<"/">>,
          parts |-> path_parts(x.chars, 1, <<>>)]

\* a mapping as a value of a replacement field
Mapping(m) == [t |-> "mapping", m |-> m]

Digits == <<"0", "1", "2", "3", "4", "5", "6", "7", "8", "9">>

IsDigits(s) == s # <<>> /\ \A i \in DOMAIN s : \E k \in DOMAIN Digits : Digits[k] = s[i]

RECURSIVE IntOf(_)
\* int(s) of a str of digits
IntOf(s) ==
    IF s = <<>> THEN 0
    ELSE 10 * IntOf(SubSeq(s, 1, Len(s) - 1))
            + (CHOOSE k \in 0..9 : Digits[k + 1] = s[Len(s)])

\* str(x)
str(x) == IF x.t = "mapping" THEN Str(<<"environ({...})">>) ELSE x

conv_keys == {"l", "u", "t", "c"}

\* PathFormatter.conv_map[c](s)
conv_map(c, s) ==
    CASE c = "l" -> lower(s)
      [] c = "u" -> upper(s)
      [] c = "t" -> title(s)
      [] c = "c" -> capitalize(s)

\* string.Formatter.convert_field: c is <<>> without a conversion
Formatter_convert_field(val, c) ==
    IF c = <<>> THEN val
    ELSE IF c = <<"s">> THEN str(val)
    ELSE IF c \in {<<"r">>, <<"a">>}
    THEN (IF val.t = "str" THEN Str(repr(val.chars)) ELSE str(val))
    ELSE Raise("ValueError", "Unknown conversion specifier")

\* every conversion left to string.Formatter
convert_field_plain(val, c) == Formatter_convert_field(val, c)

\* PathFormatter.convert_field
convert_field(val, c) ==
    IF c # <<>> /\ c[1] \in conv_keys
    THEN (IF val.t = "str" THEN Str(conv_map(c[1], val.chars))
          ELSE Raise("TypeError", "descriptor requires a 'str' object"))
    ELSE Formatter_convert_field(val, c)

ENV == <<"E", "N", "V">>

\* string.Formatter.get_value: an int indexes args, a str kwargs
Formatter_get_value(key, args, kwargs) ==
    IF key.t = "int"
    THEN (IF key.v < Len(args) THEN args[key.v + 1]
          ELSE Raise("IndexError", "tuple index out of range"))
    ELSE IF key.chars \in DOMAIN kwargs THEN Str(kwargs[key.chars])
    ELSE Raise("KeyError", "key")

\* PathFormatter.get_value
get_value(self, key, args, kwargs) ==
    IF key.t = "str" /\ key.chars = ENV /\ self.expandvars THEN Mapping(self.env)
    ELSE Formatter_get_value(key, args, kwargs)

\* obj[key] of a replacement field: a key of digits is an int
getitem(obj, key) ==
    IF obj.t = "mapping"
    THEN (IF IsDigits(key) THEN Raise("TypeError", "str expected, not int")
          ELSE IF key \in DOMAIN obj.m THEN Str(obj.m[key])
          ELSE Raise("KeyError", "key"))
    ELSE IF ~IsDigits(key) THEN Raise("TypeError", "string indices must be integers")
    ELSE IF IntOf(key) < Len(obj.chars) THEN Str(<<obj.chars[IntOf(key) + 1]>>)
    ELSE Raise("IndexError", "string index out of range")

RECURSIVE getitems(_, _, _)
\* obj after the [key] lookups of the field name s from position i on
getitems(obj, s, i) ==
    IF IsExc(obj) \/ i > Len(s) THEN obj
    ELSE IF s[i] # "[" THEN Raise("AttributeError", "attribute")
    ELSE IF find(s, "]", i + 1) > Len(s) \/ find(s, "]", i + 1) = i + 1
    THEN Raise("ValueError", "format string")
    ELSE getitems(getitem(obj, SubSeq(s, i + 1, find(s, "]", i + 1) - 1)), s,
                  find(s, "]", i + 1) + 1)

\* the end of the first part of a field name: before the first [ or .
first_end(name) ==
    IF find(name, "[", 1) < find(name, ".", 1) THEN find(name, "[", 1)
    ELSE find(name, ".", 1)

\* the key of a field name: the next automatic index if the name is empty
\* (auto counts those given, -1 once an index was written out)
field_key(name, auto) ==
    IF first_end(name) = 1
    THEN (IF auto < 0 THEN Raise("ValueError", "format string") ELSE PyInt(auto))
    ELSE IF IsDigits(SubSeq(name, 1, first_end(name) - 1))
    THEN (IF auto > 0 THEN Raise("ValueError", "format string")
          ELSE PyInt(IntOf(SubSeq(name, 1, first_end(name) - 1))))
    ELSE Str(SubSeq(name, 1, first_end(name) - 1))

next_auto(name, auto) ==
    IF first_end(name) = 1 THEN auto + 1
    ELSE IF IsDigits(SubSeq(name, 1, first_end(name) - 1)) THEN -1
    ELSE auto

\* string.Formatter.get_field
get_field(self, name, args, kwargs, auto) ==
    IF IsExc(field_key(name, auto)) THEN field_key(name, auto)
    ELSE getitems(get_value(self, field_key(name, auto), args, kwargs), name,
                  first_end(name))

\* convert_field and format_field with an empty format specification
convert_and_format(obj, c) ==
    IF IsExc(obj) THEN obj
    ELSE IF IsExc(convert_field(obj, c)) THEN convert_field(obj, c)
    ELSE str(convert_field(obj, c))

\* one replacement field name!c: the conversion is one character at the end
replacement_field(self, field, args, kwargs, auto) ==
    IF find(field, "!", 1) > Len(field)
    THEN convert_and_format(get_field(self, field, args, kwargs, auto), <<>>)
    ELSE IF find(field, "!", 1) # Len(field) - 1 THEN Raise("ValueError", "format string")
    ELSE convert_and_format(
            get_field(self, SubSeq(field, 1, Len(field) - 2), args, kwargs, auto),
            <<field[Len(field)]>>)

\* the name of the field without its conversion
field_name(field) == SubSeq(field, 1, find(field, "!", 1) - 1)

RECURSIVE field_end(_, _)
\* the closing brace of the field from position i of s on; 0 if the string
\* ends or a brace opens first
field_end(s, i) ==
    IF i > Len(s) \/ s[i] = "{" THEN 0
    ELSE IF s[i] = "}" THEN i
    ELSE field_end(s, i + 1)

RECURSIVE vformat_from(_, _, _, _, _, _, _)
\* string.Formatter.vformat of s from position i on, acc being the output
\* so far: {{ and }} are braces, {...} a replacement field
vformat_from(self, s, i, args, kwargs, auto, acc) ==
    IF i > Len(s) THEN Str(acc)
    ELSE IF s[i] = "{"
    THEN IF i < Len(s) /\ s[i + 1] = "{"
         THEN vformat_from(self, s, i + 2, args, kwargs, auto, Append(acc, "{"))
         ELSE IF field_end(s, i + 1) = 0 THEN Raise("ValueError", "format string")
         ELSE IF IsExc(replacement_field(self, SubSeq(s, i + 1, field_end(s, i + 1) - 1),
                                         args, kwargs, auto))
         THEN replacement_field(self, SubSeq(s, i + 1, field_end(s, i + 1) - 1),
                                args, kwargs, auto)
         ELSE vformat_from(self, s, field_end(s, i + 1) + 1, args, kwargs,
                next_auto(field_name(SubSeq(s, i + 1, field_end(s, i + 1) - 1)), auto),
                acc \o replacement_field(self, SubSeq(s, i + 1, field_end(s, i + 1) - 1),
                                         args, kwargs, auto).chars)
    ELSE IF s[i] = "}"
    THEN IF i < Len(s) /\ s[i + 1] = "}"
         THEN vformat_from(self, s, i + 2, args, kwargs, auto, Append(acc, "}"))
         ELSE Raise("ValueError", "format string")
    ELSE vformat_from(self, s, i + 1, args, kwargs, auto, Append(acc, s[i]))

Formatter_vformat(self, fmt, args, kwargs) ==
    vformat_from(self, fmt, 1, args, kwargs, 0, <<>>)

\* PathFormatter.__init__; environ is os.environ
PathFormatter(fmt, expandvars_, expanduser_, env_defaults, environ) ==
    [fmt |-> fmt, expandvars |-> expandvars_, expanduser |-> expanduser_,
     env |-> IF env_defaults.t = "mapping" /\ DOMAIN env_defaults.m # {}
             THEN ChainMap(environ, env_defaults.m) ELSE environ,
     environ |-> environ]

\* the format string after the expansion of variables
fmt_expandvars(self) ==
    IF self.expandvars THEN expandvars(self.fmt, self.env) ELSE self.fmt

\* and of the user
fmt_expanduser(self) ==
    IF self.expanduser THEN expanduser(fmt_expandvars(self), self.environ)
    ELSE fmt_expandvars(self)

\* PathFormatter.vformat
vformat(self, args, kwargs) ==
    Path(Formatter_vformat(self, fmt_expanduser(self), args, kwargs))

\* PathFormatter.__call__
PathFormatter_call(self, args, kwargs) == vformat(self, args, kwargs)

\* format as string.Formatter has it: the format string is an argument more
\* than PathFormatter.vformat takes
format_inherited(self, args, kwargs) ==
    Raise("TypeError", "vformat() takes 3 positional arguments but 4 were given")

\* PathFormatter.format
format(self, args, kwargs) == vformat(self, args, kwargs)

(***************************************************************************)
(* numpy_ext: the bit operations, on Python ints, which have no width: a   *)
(* negative int has infinitely many leading ones.                          *)
(***************************************************************************)
RECURSIVE BitAnd(_, _)
\* a & b
BitAnd(a, b) ==
    IF a = 0 \/ b = 0 THEN 0
    ELSE IF a = -1 THEN b
    ELSE IF b = -1 THEN a
    ELSE (a % 2) * (b % 2) + 2 * BitAnd(a \div 2, b \div 2)

RECURSIVE BitOr(_, _)
\* a | b
BitOr(a, b) ==
    IF a = 0 THEN b
    ELSE IF b = 0 THEN a
    ELSE IF a = -1 \/ b = -1 THEN -1
    ELSE (IF a % 2 = 1 \/ b % 2 = 1 THEN 1 ELSE 0) + 2 * BitOr(a \div 2, b \div 2)

\* ~a
invert(a) == -a - 1

RECURSIVE BitXor(_, _)
\* a ^ b
BitXor(a, b) ==
    IF a = 0 THEN b
    ELSE IF b = 0 THEN a
    ELSE IF a = -1 THEN invert(b)
    ELSE IF b = -1 THEN invert(a)
    ELSE (IF a % 2 = b % 2 THEN 0 ELSE 1) + 2 * BitXor(a \div 2, b \div 2)

\* the names a function of numpy_ext finds outside its own body
numpy_ext_globals ==
    {"np", "minmax", "testbit", "setbit", "clearbit", "togglebit", "popcount32",
     "popcount64", "countbits", "get_bbox_slices"}

\* 1 << pos
lshift1(pos) ==
    IF pos < 0 THEN Raise("ValueError", "negative shift count") ELSE PyInt(2 ^ pos)

\* testbit: the name val it reads is no parameter, no local and no global
testbit(v, pos) ==
    IF IsExc(lshift1(pos)) THEN lshift1(pos)
    ELSE IF "val" \notin numpy_ext_globals
    THEN Raise("NameError", "name 'val' is not defined")
    ELSE PyInt(BitAnd(v, lshift1(pos).v))

setbit(v, pos) ==
    IF IsExc(lshift1(pos)) THEN lshift1(pos) ELSE PyInt(BitOr(v, lshift1(pos).v))

clearbit(v, pos) ==
    IF IsExc(lshift1(pos)) THEN lshift1(pos)
    ELSE PyInt(BitAnd(v, invert(lshift1(pos).v)))

togglebit(v, pos) ==
    IF IsExc(lshift1(pos)) THEN lshift1(pos) ELSE PyInt(BitXor(v, lshift1(pos).v))

(***************************************************************************)
(* cds.read_requests, from the value the JSON file holds on: a dict is a   *)
(* Mapping of a function from keys to values, a list a List, a str a Str,  *)
(* a number a PyInt.                                                       *)
(***************************************************************************)
\* the regular expression of os.path.expandvars matched at position i of
\* s, \$(\w+|\{[^}]*\}): the position after the match and the name, without
\* its braces, or NoMatch
os_regex_var(s, i) ==
    IF s[i] # "$" THEN NoMatch
    ELSE IF word_end(s, i + 1) > i + 1
    THEN [end |-> word_end(s, i + 1), name |-> SubSeq(s, i + 1, word_end(s, i + 1) - 1)]
    ELSE IF i < Len(s) /\ s[i + 1] = "{" /\ find(s, "}", i + 2) <= Len(s)
    THEN [end |-> find(s, "}", i + 2) + 1,
          name |-> SubSeq(s, i + 2, find(s, "}", i + 2) - 1)]
    ELSE NoMatch

RECURSIVE os_expandvars_from(_, _, _)
\* os.path.expandvars from position i on: a variable that is not defined is
\* left as it is, a value is not scanned again
os_expandvars_from(s, env, i) ==
    IF i > Len(s) THEN <<>>
    ELSE IF os_regex_var(s, i).end = 0 THEN <<s[i]>> \o os_expandvars_from(s, env, i + 1)
    ELSE (IF os_regex_var(s, i).name \in DOMAIN env
          THEN env[os_regex_var(s, i).name]
          ELSE SubSeq(s, i, os_regex_var(s, i).end - 1))
         \o os_expandvars_from(s, env, os_regex_var(s, i).end)

\* _expand_path: the user first, the variables then
expand_path(p, user, vars_, environ) ==
    Str(IF vars_
        THEN os_expandvars_from(IF user THEN expanduser(p.chars, environ) ELSE p.chars,
                                environ, 1)
        ELSE IF user THEN expanduser(p.chars, environ) ELSE p.chars)

\* lines 133-141: the target of every request that has one is expanded
expand_targets(reqs, user, vars_, environ) ==
    [i \in DOMAIN reqs |->
        IF "target" \in DOMAIN reqs[i].m
        THEN Mapping([k \in DOMAIN reqs[i].m |->
                        IF k = "target"
                        THEN expand_path(reqs[i].m[k], user, vars_, environ)
                        ELSE reqs[i].m[k]])
        ELSE reqs[i]]

request_has_children(req) == "request_children" \in DOMAIN req.m

\* r after r.pop("request_children")
popped(r) == Mapping([k \in DOMAIN r.m \ {"request_children"} |-> r.m[k]])

\* {**r, **ch}
merged(r, ch) ==
    Mapping([k \in DOMAIN r.m \cup DOMAIN ch.m |->
                IF k \in DOMAIN ch.m THEN ch.m[k] ELSE r.m[k]])

\* the children as they are, without the fields of the parent
children_first(r) == r.m["request_children"].items

\* [{**r, **ch} for ch in children]
children_of(r) ==
    [j \in DOMAIN r.m["request_children"].items |->
        merged(popped(r), r.m["request_children"].items[j])]

RECURSIVE expand_children_from(_, _)
\* lines 146-151: _reqs after the requests from position i on
expand_children_from(reqs, i) ==
    IF i > Len(reqs) THEN <<>>
    ELSE (IF request_has_children(reqs[i]) THEN children_of(reqs[i]) ELSE <<reqs[i]>>)
            \o expand_children_from(reqs, i + 1)

\* lines 144-152: the loop runs over the list it began with; reqs is _reqs
\* after its first pass, and the list read if there was none
expand_children_of(reqs) ==
    IF Len(reqs) = 0 THEN reqs ELSE expand_children_from(reqs, 1)

\* lines 133-155, on the list of requests
requests_of(reqs, expand_user, expand_vars, expand_children, environ) ==
    List(IF expand_children
         THEN expand_children_of(IF expand_user \/ expand_vars
                                 THEN expand_targets(reqs, expand_user, expand_vars, environ)
                                 ELSE reqs)
         ELSE IF expand_user \/ expand_vars
         THEN expand_targets(reqs, expand_user, expand_vars, environ)
         ELSE reqs)

\* read_requests; js is what _read_json returns
read_requests(js, expand_user, expand_vars, expand_children, environ) ==
    IF js.t = "mapping"
    THEN requests_of(<<js>>, expand_user, expand_vars, expand_children, environ)
    ELSE IF js.t = "list"
    THEN requests_of(js.items, expand_user, expand_vars, expand_children, environ)
    ELSE Raise("ValueError", "read neither a Sequence nor a Mapping")

(***************************************************************************)
(* The arguments the calls draw from.                                      *)
(***************************************************************************)
\* the sequences over S of length lo..hi
SeqsOf(S, lo, hi) == UNION {[1..k -> S] : k \in lo..hi}

\* a units argument: a member of the enum, a name in some letter case, or
\* a str that names no unit
UnitArgs ==
    {Unit(DEG), Unit(RAD), Unit(HR),
     Name(<<"d", "e", "g">>), Name(<<"R", "a", "d", "i", "a", "n", "s">>),
     Name(<<"h", "r">>), Name(<<"H", "O", "U", "R", "S">>), Name(<<"f", "o", "o">>)}

EnumUnits == {Unit(DEG), Unit(RAD), Unit(HR)}

\* day counts: the epoch, a quarter day after, half a day before, days in
\* spring and summer, and two days of the year before the epoch
JDs ==
    {0, Const(1, 4), -Const(1, 2), Const(7925, 100), Const(1725, 10), -Const(2001, 10),
     -Const(3001, 10)}

\* 2000-01-01T12:00 in seconds
NoonS == 12 * 3600

\* the times of the ephemeris calls: floats (NaN among them), timestamps,
\* arrays and lists of floats, an array with a NaN, a list of timestamps,
\* and a str, which is no time
TimeArgs ==
    {Float(v) : v \in JDs} \cup {Float(NaN)}
        \cup {Datetime(NoonS + 6 * 3600), Datetime64("h", 36)}
        \cup {NDArray("f", s) : s \in SeqsOf({0, Const(1725, 10)}, 1, MaxLen)}
        \cup {List(<<Float(0), Float(Const(1, 4))>>), Str(<<"n", "o", "w">>),
              List(<<Datetime(NoonS), Datetime64("h", 36)>>),
              NDArray("f", <<NaN, Const(1725, 10)>>)}

\* observer longitudes in degrees: absent, scalars, arrays, a list
LonArgs ==
    {None, Float(0), Float(Const(15, 1)), Float(-Const(725, 10))}
        \cup {NDArray("f", s) : s \in SeqsOf({0, Const(90, 1)}, 1, MaxLen)}
        \cup {List(<<Float(Const(15, 1))>>)}

\* numbers converted between units
XArgs ==
    {Float(v) : v \in {0, 1, Scale, -Const(15, 2), Const(180, 1), Const(355, 113), NaN}}
        \cup {NDArray("f", <<Scale, -Const(90, 1)>>), None}

\* the elements of the lists handed to to_julday
TimeElems ==
    {Float(0), Float(Const(3, 2)), PyInt(0), Bool(TRUE), None, Dict, Object,
     Str(<<"n", "o", "w">>), Datetime(NoonS), Datetime(NoonS + 6 * 3600),
     Datetime64("D", 0), Datetime64("h", 12), Datetime64("m", 12 * 60),
     Datetime64("s", NoonS), Datetime64("s", NoonS - 86400 - 1)}

\* what to_julday is called with: scalars, lists, and the arrays of lists
JuldayArgs ==
    TimeElems \cup {Float(NaN), Int64(0), Int64(3), PyInt(3), Bool(FALSE)}
        \cup {List(s) : s \in SeqsOf(TimeElems, 0, MaxLen)}
        \cup {np_array(List(s)) : s \in SeqsOf(TimeElems, 1, MaxLen)}

Epochs == {EPOCH_JD2000_0, Datetime64("D", 0)}

\* precomputed ecliptic longitudes and obliquities, in degrees
LArgs == {None, Float(0), Float(Const(100, 1)), Float(Const(2805, 10)), Str(<<"n", "o", "w">>)}

EpArgs == {None, Float(Const(23439, 1000)), Float(0)}

\* precomputed sidereal times (hours) and right ascensions (radians)
MstArgs == {None, Float(0), Float(Const(65, 10)), Float(-Const(12, 1)), Float(Const(30, 1))}

RaArgs == {None, Float(0), Float(pi), Float(-pi), Float(Const(1, 2))}

\* the latitude that has the sun of the epoch in the zenith at noon
ZenithLat == declination(Float(0), None, None, Unit(DEG))

\* observer latitudes in degrees: the equator, the mid latitudes of both
\* hemispheres, the two poles, the zenith latitude, and an array
LatArgs ==
    {Float(0), Float(Const(525, 10)), Float(-Const(30, 1)), Float(Const(90, 1)),
     Float(-Const(90, 1)), ZenithLat, NDArray("f", <<0, Const(525, 10)>>)}

\* the longitude of local solar noon at the day count t: the local hour
\* angle there is 0
NoonLon(t) == Float(-15 * hour_angle(Float(t), None, None, None, Unit(HR)).v)

\* the longitudes of sun_angles: Greenwich, a western one, and local noons
SunLonArgs == {Float(0), Float(-Const(725, 10))} \cup {NoonLon(t) : t \in JDs}

\* the times of apparent_time: those of the ephemeris and what is no time
ApparentTimeArgs ==
    TimeArgs \cup {None, Dict, List(<<None>>), List(<<Object>>),
                   List(<<Str(<<"n", "o", "w">>)>>)}

\* a request from the keys and values given
Request(keys, vals) == Mapping([k \in keys |-> vals[k]])

\* children: one that changes a field of the parent, one with a target of
\* its own, one with children of its own
Children ==
    <<Request({"year"}, [k \in {"year"} |-> Str(<<"2">>)]),
      Request({"month", "target"},
              [k \in {"month", "target"} |->
                  IF k = "month" THEN Str(<<"3">>) ELSE Str(<<"$", "X", "/", "d">>)]),
      Request({"request_children"},
              [k \in {"request_children"} |->
                  List(<<Request({"year"}, [k2 \in {"year"} |-> Str(<<"4">>)])>>)])>>

\* requests: without children, with and without a target; parents of two
\* children, of none, and of one that is a parent itself
Requests ==
    {Request({"dataset"}, [k \in {"dataset"} |-> Str(<<"a">>)]),
     Request({"dataset", "target"},
             [k \in {"dataset", "target"} |->
                 IF k = "dataset" THEN Str(<<"b">>) ELSE Str(<<"~", "/", "$", "{", "X", "}">>)]),
     Request({"dataset", "year", "target", "request_children"},
             [k \in {"dataset", "year", "target", "request_children"} |->
                 CASE k = "dataset" -> Str(<<"c">>)
                   [] k = "year" -> Str(<<"1">>)
                   [] k = "target" -> Str(<<"~">>)
                   [] OTHER -> List(SubSeq(Children, 1, 2))]),
     Request({"dataset", "request_children"},
             [k \in {"dataset", "request_children"} |->
                 IF k = "dataset" THEN Str(<<"d">>) ELSE List(<<>>)]),
     Request({"dataset", "request_children"},
             [k \in {"dataset", "request_children"} |->
                 IF k = "dataset" THEN Str(<<"e">>) ELSE List(SubSeq(Children, 3, 3))])}

\* what the file holds: a list of requests, one request, or a number
JsonArgs ==
    {List(r) : r \in SeqsOf(Requests, 0, MaxLen)} \cup Requests \cup {PyInt(1)}

\* the bit positions 0..MaxBit and the ints of MaxBit + 1 bits
MaxBit == 4

BitValues == 0..(2 ^ (MaxBit + 1) - 1)

BitPositions == -1..MaxBit

(***************************************************************************)
(* The state machine: a caller calls one function and takes its result.    *)
\* the name of a variable
X == <<"X">>

\* os.environ with HOME and the variable name set to v
Environ(name, v) == [k \in {HOME, name} |-> IF k = HOME THEN <<"/", "h">> ELSE v]

\* values of a variable: short strs of path characters, the tilde and
\* braces, and some longer ones
EnvValues ==
    SeqsOf({"a", "/", "~", "{", "}"}, 0, MaxLen)
        \cup {<<"{", "0", "}">>, <<"{", "{", "a", "}", "}">>, <<"$", "X">>,
              <<"/", "a", "/", "/", "D", "/">>, <<"~", "/", "a">>, <<"~", "a", "/">>,
              <<"/", "a", "/", ".", "/", "d">>}

\* format strings that name a variable, in both syntaxes
EnvFormats ==
    {<<"$", "X">>, <<"$", "{", "X", "}">>, <<"{", "E", "N", "V", "[", "X", "]", "}">>,
     <<"$", "Y">>, <<"{", "E", "N", "V", "[", "Y", "]", "}">>,
     <<"$", "{", "X">>, <<"$", "X", "/", "{", "0", "}">>,
     <<"~", "/", "$", "X">>, <<"{", "E", "N", "V", "[", "X", "]", "!", "u", "}">>}

\* format strings of one field with a conversion character, and others
ConvFormats ==
    {<<"{", "0", "!", c, "}">> : c \in {"l", "u", "t", "c", "s", "r", "a", "x"}}
        \cup {<<"{", "0", "}">>, <<"{", "}">>, <<"{", "!", "l", "}">>,
              <<"{", "}", "/", "{", "0", "}">>, <<"{", "0", "[", "1", "]", "}">>,
              <<"{", "k", "!", "u", "}">>, <<"{", "0", "!", "l", "u", "}">>,
              <<"a", "/", "{", "{", "{", "0", "!", "t", "}", "}", "}">>}

\* the strs a field is given
FieldStrs == SeqsOf({"a", "D", " ", "1"}, 0, MaxLen + 1)

NoKwargs == [k \in {} |-> <<>>]

\* PathFormatter(fmt, ...)(*args, **kwargs) under an environment
PathFormatterCalls ==
    {[f |-> "PathFormatter", fmt |-> fmt, expandvars |-> TRUE, expanduser |-> TRUE,
      env_defaults |-> None, environ |-> Environ(X, v), args |-> <<>>,
      kwargs |-> NoKwargs] : fmt \in EnvFormats, v \in EnvValues}
    \cup
    {[f |-> "PathFormatter", fmt |-> fmt, expandvars |-> TRUE, expanduser |-> TRUE,
      env_defaults |-> None, environ |-> Environ(<<"1">>, <<"/", "a">>), args |-> <<>>,
      kwargs |-> NoKwargs] : fmt \in {<<"$", "1">>, <<"{", "E", "N", "V", "[", "1", "]", "}">>}}
    \cup
    {[f |-> "PathFormatter", fmt |-> fmt, expandvars |-> ev, expanduser |-> eu,
      env_defaults |-> Mapping([k \in {<<"Y">>, X} |-> <<"/", "d">>]),
      environ |-> Environ(X, <<"~">>), args |-> <<Str(<<"a">>)>>,
      kwargs |-> NoKwargs] : fmt \in EnvFormats, ev \in BOOLEAN, eu \in BOOLEAN}
    \cup
    {[f |-> "PathFormatter", fmt |-> fmt, expandvars |-> TRUE, expanduser |-> TRUE,
      env_defaults |-> None, environ |-> Environ(X, <<"/", "a">>), args |-> <<Str(s)>>,
      kwargs |-> [k \in {<<"k">>} |-> s]] : fmt \in ConvFormats, s \in FieldStrs}

(***************************************************************************)
Idle == [f |-> "none"]

Init == pc = "idle" /\ call = Idle /\ ret = None

Call_to_units ==
    /\ pc = "idle"
    /\ \E x \in XArgs, from_units \in UnitArgs, to \in UnitArgs :
        /\ call' = [f |-> "to_units", x |-> x, from_units |-> from_units, to |-> to]
        /\ ret' = to_units(x, from_units, to)
    /\ pc' = "done"

Call_to_julday ==
    /\ pc = "idle"
    /\ \E time \in JuldayArgs, epoch \in Epochs :
        /\ call' = [f |-> "to_julday", time |-> time, epoch |-> epoch]
        /\ ret' = to_julday(time, epoch)
    /\ pc' = "done"

Call_ecliptic_longitude ==
    /\ pc = "idle"
    /\ \E time \in TimeArgs, units \in UnitArgs :
        /\ call' = [f |-> "ecliptic_longitude", time |-> time, units |-> units]
        /\ ret' = ecliptic_longitude(time, units)
    /\ pc' = "done"

Call_obliquity_of_ecliptic ==
    /\ pc = "idle"
    /\ \E time \in TimeArgs, units \in UnitArgs :
        /\ call' = [f |-> "obliquity_of_ecliptic", time |-> time, units |-> units]
        /\ ret' = obliquity_of_ecliptic(time, units)
    /\ pc' = "done"

Call_right_ascension ==
    /\ pc = "idle"
    /\ \E time \in TimeArgs \cup {None}, l \in LArgs, ep \in EpArgs, units \in UnitArgs :
        /\ call' = [f |-> "right_ascension", time |-> time, l |-> l, ep |-> ep, units |-> units]
        /\ ret' = right_ascension(time, l, ep, units)
    /\ pc' = "done"

Call_declination ==
    /\ pc = "idle"
    /\ \E time \in TimeArgs \cup {None}, l \in LArgs, ep \in EpArgs, units \in UnitArgs :
        /\ call' = [f |-> "declination", time |-> time, l |-> l, ep |-> ep, units |-> units]
        /\ ret' = declination(time, l, ep, units)
    /\ pc' = "done"

Call_celestial_coordinates ==
    /\ pc = "idle"
    /\ \E time \in TimeArgs \cup {None}, units \in UnitArgs :
        /\ call' = [f |-> "celestial_coordinates", time |-> time, units |-> units]
        /\ ret' = celestial_coordinates(time, units)
    /\ pc' = "done"

Call_mean_sidereal_time ==
    /\ pc = "idle"
    /\ \E time \in TimeArgs, lon \in LonArgs, units \in UnitArgs :
        /\ call' = [f |-> "mean_sidereal_time", time |-> time, lon |-> lon, units |-> units]
        /\ ret' = mean_sidereal_time(time, lon, units)
    /\ pc' = "done"

Call_equation_of_time ==
    /\ pc = "idle"
    /\ \E time \in TimeArgs, units \in UnitArgs :
        /\ call' = [f |-> "equation_of_time", time |-> time, units |-> units]
        /\ ret' = equation_of_time(time, units)
    /\ pc' = "done"

Call_apparent_time ==
    /\ pc = "idle"
    /\ \E time \in ApparentTimeArgs, lon \in LonArgs, units \in UnitArgs :
        /\ call' = [f |-> "apparent_time", time |-> time, lon |-> lon, units |-> units]
        /\ ret' = apparent_time(time, lon, units)
    /\ pc' = "done"

\* with a time, mst and ra are recomputed; without one, they are the input
Call_hour_angle ==
    /\ pc = "idle"
    /\ \E time \in TimeArgs \cup {None}, lon \in LonArgs, mst \in MstArgs, ra \in RaArgs,
          units \in UnitArgs :
        /\ time.t # "None" => (mst.t = "None") = (ra.t = "None") /\ mst \in {None, Float(0)}
                                /\ ra \in {None, Float(pi)}
        /\ time.t = "None" => lon \in {None, Float(Const(15, 1))}
        /\ call' = [f |-> "hour_angle", time |-> time, lon |-> lon, mst |-> mst,
                    ra |-> ra, units |-> units]
        /\ ret' = hour_angle(time, lon, mst, ra, units)
    /\ pc' = "done"

Call_sun_angles ==
    /\ pc = "idle"
    /\ \E time \in TimeArgs, lat \in LatArgs, lon \in SunLonArgs, units \in UnitArgs :
        /\ call' = [f |-> "sun_angles", time |-> time, lat |-> lat, lon |-> lon,
                    units |-> units]
        /\ ret' = sun_angles(time, lat, lon, units)
    /\ pc' = "done"

Call_earth_sun_distance ==
    /\ pc = "idle"
    /\ \E time \in TimeArgs :
        /\ call' = [f |-> "earth_sun_distance", time |-> time]
        /\ ret' = earth_sun_distance(time)
    /\ pc' = "done"

Call_PathFormatter ==
    /\ pc = "idle"
    /\ \E c \in PathFormatterCalls :
        /\ call' = c
        /\ ret' = PathFormatter_call(PathFormatter(c.fmt, c.expandvars, c.expanduser,
                                                   c.env_defaults, c.environ),
                                     c.args, c.kwargs)
    /\ pc' = "done"

Call_format ==
    /\ pc = "idle"
    /\ \E c \in PathFormatterCalls :
        /\ call' = [c EXCEPT !.f = "format"]
        /\ ret' = format(PathFormatter(c.fmt, c.expandvars, c.expanduser,
                                       c.env_defaults, c.environ),
                         c.args, c.kwargs)
    /\ pc' = "done"

Call_testbit ==
    /\ pc = "idle"
    /\ \E v \in BitValues, pos \in BitPositions :
        /\ call' = [f |-> "testbit", v |-> v, pos |-> pos]
        /\ ret' = testbit(v, pos)
    /\ pc' = "done"

Call_setbit ==
    /\ pc = "idle"
    /\ \E v \in BitValues, pos \in BitPositions :
        /\ call' = [f |-> "setbit", v |-> v, pos |-> pos]
        /\ ret' = setbit(v, pos)
    /\ pc' = "done"

Call_clearbit ==
    /\ pc = "idle"
    /\ \E v \in BitValues, pos \in BitPositions :
        /\ call' = [f |-> "clearbit", v |-> v, pos |-> pos]
        /\ ret' = clearbit(v, pos)
    /\ pc' = "done"

Call_togglebit ==
    /\ pc = "idle"
    /\ \E v \in BitValues, pos \in BitPositions :
        /\ call' = [f |-> "togglebit", v |-> v, pos |-> pos]
        /\ ret' = togglebit(v, pos)
    /\ pc' = "done"

Call_read_requests ==
    /\ pc = "idle"
    /\ \E js \in JsonArgs, eu \in BOOLEAN, ev \in BOOLEAN, ec \in BOOLEAN :
        /\ call' = [f |-> "read_requests", js |-> js, expand_user |-> eu,
                    expand_vars |-> ev, expand_children |-> ec,
                    environ |-> Environ(X, <<"/", "a">>)]
        /\ ret' = read_requests(js, eu, ev, ec, Environ(X, <<"/", "a">>))
    /\ pc' = "done"

\* the caller has the result and is free to call again
Return ==
    /\ pc = "done"
    /\ pc' = "idle"
    /\ call' = Idle
    /\ ret' = None

Next ==
    \/ Call_to_units
    \/ Call_to_julday
    \/ Call_ecliptic_longitude
    \/ Call_obliquity_of_ecliptic
    \/ Call_right_ascension
    \/ Call_declination
    \/ Call_celestial_coordinates
    \/ Call_mean_sidereal_time
    \/ Call_equation_of_time
    \/ Call_apparent_time
    \/ Call_hour_angle
    \/ Call_sun_angles
    \/ Call_earth_sun_distance
    \/ Call_PathFormatter
    \/ Call_format
    \/ Call_testbit
    \/ Call_setbit
    \/ Call_clearbit
    \/ Call_togglebit
    \/ Call_read_requests
    \/ Return

Spec == Init /\ [][Next]_vars

(***************************************************************************)
(* What the claims speak of.                                               *)
(***************************************************************************)
Done(f) == pc = "done" /\ call.f = f

\* a returned float or array of floats, and the grid numbers in it
IsNumber(r) == r.t = "float" \/ (r.t = "ndarray" /\ r.kind = "f")

NumbersOf(r) == IF r.t = "float" THEN {r.v} ELSE {r.v[i] : i \in DOMAIN r.v}

\* a units argument that names a unit, and the member it names
IsKnownUnit(u) == u.t = "units" \/ (u.t = "str" /\ upper(u.chars) \in DOMAIN members)

MemberOf(u) == IF u.t = "str" THEN Unit(members[upper(u.chars)]) ELSE u

\* the call c made again with the units argument u
Recall(c, u) ==
    CASE c.f = "ecliptic_longitude" -> ecliptic_longitude(c.time, u)
      [] c.f = "obliquity_of_ecliptic" -> obliquity_of_ecliptic(c.time, u)
      [] c.f = "right_ascension" -> right_ascension(c.time, c.l, c.ep, u)
      [] c.f = "declination" -> declination(c.time, c.l, c.ep, u)
      [] c.f = "celestial_coordinates" -> celestial_coordinates(c.time, u)
      [] c.f = "mean_sidereal_time" -> mean_sidereal_time(c.time, c.lon, u)
      [] c.f = "equation_of_time" -> equation_of_time(c.time, u)
      [] c.f = "hour_angle" -> hour_angle(c.time, c.lon, c.mst, c.ra, u)
      [] c.f = "sun_angles" -> sun_angles(c.time, c.lat, c.lon, u)

UnitAware ==
    {"ecliptic_longitude", "obliquity_of_ecliptic", "right_ascension", "declination",
     "celestial_coordinates", "mean_sidereal_time", "equation_of_time", "hour_angle",
     "sun_angles"}

InvalidUnit == Raise("TypeError", "Invalid type for units argument")

C2_HourAngleHonoursUnits ==
    (Done("hour_angle") /\ call.units \in EnumUnits) =>
        ret = to_units(hour_angle(call.time, call.lon, call.mst, call.ra, Unit(HR)),
                       Unit(HR), call.units)

(***************************************************************************)
(* C3.  mean_sidereal_time and hour_angle broadcast over the longitude:    *)
(* with an array of N longitudes and a scalar time or an array of N times  *)
(* they return N results, element i being the scalar call with longitude   *)
(* i (and time i).                                                         *)
(***************************************************************************)
C3_TimeAt(time, i) == IF time.t = "float" THEN time ELSE Float(time.v[i])

C3_Scalar(c, i) ==
    IF c.f = "mean_sidereal_time"
        THEN mean_sidereal_time(C3_TimeAt(c.time, i), Float(c.lon.v[i]), c.units)
    ELSE hour_angle(C3_TimeAt(c.time, i), Float(c.lon.v[i]), c.mst, c.ra, c.units)

C3_LongitudeBroadcast ==
    (/\ pc = "done" /\ call.f \in {"mean_sidereal_time", "hour_angle"}
     /\ call.units \in EnumUnits
     /\ call.lon.t = "ndarray" /\ Len(call.lon.v) >= 1
     /\ \/ call.time.t = "float"
        \/ call.time.t = "ndarray" /\ Len(call.time.v) = Len(call.lon.v))
    => /\ ret.t = "ndarray"
       /\ Len(ret.v) = Len(call.lon.v)
       /\ \A i \in DOMAIN call.lon.v : Float(ret.v[i]) = C3_Scalar(call, i)

(***************************************************************************)
(* C4.  to_julday of the reference epoch 2000-01-01T12:00 returns exactly  *)
(* 0.0 for every supported representation of that instant: the float 0.0,  *)
(* a datetime, a datetime64 of any time resolution, and a list or array of *)
(* floats or of timestamps (every element of the result is 0.0).           *)
(***************************************************************************)
IsEpochStamp(x) ==
    \/ x.t = "datetime" /\ x.s = NoonS
    \/ x.t = "datetime64" /\ x.unit \in {"h", "m", "s"} /\ x.n * SecPer(x.unit) = NoonS

IsEpochScalar(x) == (x.t = "float" /\ x.v = 0) \/ IsEpochStamp(x)

IsEpochArray(x) ==
    \/ /\ x.t = "list" /\ Len(x.items) >= 1
       /\ \/ \A i \in DOMAIN x.items : x.items[i].t = "float" /\ x.items[i].v = 0
          \/ \A i \in DOMAIN x.items : IsEpochStamp(x.items[i])
    \/ x.t = "ndarray" /\ x.kind = "f" /\ Len(x.v) >= 1 /\ \A i \in DOMAIN x.v : x.v[i] = 0
    \/ /\ x.t = "ndarray" /\ x.kind \in {"M", "O"} /\ Len(x.items) >= 1
       /\ \A i \in DOMAIN x.items : IsEpochStamp(x.items[i])

SizeOf(x) == IF x.t = "list" \/ (x.t = "ndarray" /\ x.kind \notin {"f", "i"})
             THEN Len(x.items) ELSE Len(x.v)

C4_EpochIsZero ==
    (Done("to_julday") /\ call.epoch = EPOCH_JD2000_0) =>
        /\ IsEpochScalar(call.time) => ret = Float(0)
        /\ IsEpochArray(call.time) =>
              ret = NDArray("f", [i \in 1..SizeOf(call.time) |-> 0])

\* a list of a datetime and a datetime64 in seconds, both the epoch
C4_Witness ==
    /\ Done("to_julday") /\ call.epoch = EPOCH_JD2000_0
    /\ call.time = List(<<Datetime(NoonS), Datetime64("s", NoonS)>>)
    /\ ret = NDArray("f", <<0, 0>>)

(***************************************************************************)
(* C5.  to_julday raises TypeError 'Type of time argument not supported'   *)
(* for every input that is neither numeric nor a timestamp (None, a str,   *)
(* a dict, a list or array of strs or of arbitrary objects), and nothing   *)
(* else.                                                                   *)
(***************************************************************************)
IsNoTime(x) == x.t \in {"None", "str", "dict", "object"}

IsUnsupportedTime(x) ==
    \/ IsNoTime(x)
    \/ x.t = "list" /\ Len(x.items) >= 1 /\ \A i \in DOMAIN x.items : IsNoTime(x.items[i])
    \/ /\ x.t = "ndarray" /\ x.kind \in {"U", "O"} /\ Len(x.items) >= 1
       /\ \A i \in DOMAIN x.items : IsNoTime(x.items[i])

C5_UnsupportedTimeRaises ==
    (Done("to_julday") /\ IsUnsupportedTime(call.time)) =>
        ret = Raise("TypeError", "Type of time argument not supported")

(***************************************************************************)
(* C6.  In every unit-aware function a unit may be given as the enum       *)
(* member or as its name in any letter case, with the same result, and a   *)
(* str that names no unit makes the call fail with TypeError 'Invalid type *)
(* for units argument' wherever the call would else return a value.        *)
(***************************************************************************)
C6_UnitNames ==
    /\ Done("to_units") =>
          /\ (IsKnownUnit(call.from_units) /\ IsKnownUnit(call.to)) =>
                ret = to_units(call.x, MemberOf(call.from_units), MemberOf(call.to))
          /\ ~(IsKnownUnit(call.from_units) /\ IsKnownUnit(call.to)) => ret = InvalidUnit
    /\ (pc = "done" /\ call.f \in UnitAware) =>
          /\ IsKnownUnit(call.units) => ret = Recall(call, MemberOf(call.units))
          /\ (~IsKnownUnit(call.units) /\ ~IsExc(Recall(call, Unit(DEG)))) => ret = InvalidUnit

\* hour_angle called with the name of HOURS
C6_Witness ==
    /\ Done("hour_angle") /\ call.units = Name(<<"h", "r">>)
    /\ call.time.t = "float" /\ ret.t = "float" /\ ~isnan(ret.v)
    /\ ret # hour_angle(call.time, call.lon, call.mst, call.ra, Unit(HR))

\* the same statement of every unit-aware function but hour_angle
C6_UnitNamesButHourAngle == Done("hour_angle") \/ C6_UnitNames

(***************************************************************************)
(* C7.  Unit conversion round-trips: for every pair of units (A, B) of the *)
(* enum and every x, to_units(to_units(x, A, B), B, A) is x, the six       *)
(* conversions being the linear maps fixed by 1 hour = 15 degrees = pi/12  *)
(* radians.  In exact arithmetic the two maps of a pair are inverse linear *)
(* maps with the factor of the pair; the result of to_units is x times the *)
(* factor, and on the grid the round trip is x up to the rounding of the   *)
(* two results.                                                            *)
(***************************************************************************)
\* the factor of the conversion from A to B that 1 h = 15 deg = pi/12 rad fixes
Factor(A, B) ==
    LET hours(U) == IF U = HR THEN Rat(1, 1) ELSE IF U = DEG THEN Rat(15, 1)
                    ELSE Rat(pi, 12 * Scale)
    IN  Rat(hours(B).n * hours(A).d, hours(B).d * hours(A).n)

\* half the factor, rounded up, and the rounding of the result itself
RoundTripTol(A, B) == (Factor(A, B).n \div (2 * Factor(A, B).d)) + 2

C7_RoundTrip ==
    (/\ Done("to_units") /\ call.x.t = "float" /\ ~isnan(call.x.v)
     /\ call.from_units \in EnumUnits /\ call.to \in EnumUnits)
    => LET A == call.from_units.v
           B == call.to.v
           x == call.x.v
           back == to_units(ret, call.to, call.from_units)
       IN  /\ A = B => ret = call.x /\ back = call.x
           /\ A # B =>
                /\ mapfun(B, A, mapfun(A, B, Rat(1, 1))) = Rat(1, 1)
                /\ mapfun(A, B, Rat(1, 1)) = Factor(A, B)
                /\ ret = Float(RoundDiv(x, Factor(A, B).n, Factor(A, B).d))
                /\ Abs(back.v - x) <= RoundTripTol(B, A)

\* 180 degrees to radians and back
C7_Witness ==
    /\ Done("to_units") /\ call.x = Float(Const(180, 1))
    /\ call.from_units = Unit(DEG) /\ call.to = Unit(RAD)
    /\ ret = Float(pi)
    /\ Abs(to_units(ret, call.to, call.from_units).v - call.x.v) <= RoundTripTol(RAD, DEG)

(***************************************************************************)
(* C8.  right_ascension and declination called without a time raise the    *)
(* ValueError of the missing argument whenever l is None or ep is None,    *)
(* before anything is computed, and do not raise it when both are given.   *)
(***************************************************************************)
MissingArgument == Raise("ValueError", "time is None, so l and ep needed as arguments")

C8_MissingArgument ==
    (pc = "done" /\ call.f \in {"right_ascension", "declination"} /\ call.time.t = "None") =>
        (ret = MissingArgument) = (call.l.t = "None" \/ call.ep.t = "None")

\* l is given, ep is not, and the units name no unit
C8_Witness ==
    /\ Done("right_ascension") /\ call.time.t = "None"
    /\ call.l.t = "float" /\ call.ep.t = "None" /\ ~IsKnownUnit(call.units)
    /\ ret = MissingArgument

(***************************************************************************)
(* C9.  The two input modes of right_ascension and of declination agree:   *)
(* f(time=t, units=U) is f(l=ecliptic_longitude(t, DEGREES),               *)
(* ep=obliquity_of_ecliptic(t, DEGREES), units=U) for every time t and     *)
(* unit U.                                                                 *)
(***************************************************************************)
C9_ModesAgree ==
    (pc = "done" /\ call.f \in {"right_ascension", "declination"} /\ call.time.t # "None") =>
        LET l == ecliptic_longitude(call.time, Unit(DEG))
            ep == obliquity_of_ecliptic(call.time, Unit(DEG))
        IN  IF call.f = "right_ascension"
                THEN ret = right_ascension(None, l, ep, call.units)
                ELSE ret = declination(None, l, ep, call.units)

\* a right ascension in hours of a summer day
C9_Witness ==
    /\ Done("right_ascension") /\ call.time = Float(Const(1725, 10))
    /\ UnitEq(call.units, HR) /\ ret.t = "float" /\ ret.v > Const(6, 1)

InTurn(v, U) ==
    /\ 0 <= v
    /\ U = DEG => v < Const(360, 1)
    /\ U = HR => v < Const(24, 1)
    /\ U = RAD => v < TwoPi

C12_G(t) ==
    (Const(6697375, 1000000) + RoundDiv(t, 65709824, 1000000000))
        + 24 * ((t - Const(1, 2)) % Scale)

\* the local sidereal time of the claim, lon being None or a float
C12_Hours(t, lon) ==
    IF isnan(t) THEN NaN
    ELSE IF lon.t = "None" THEN C12_G(t) % (24 * Scale)
    ELSE (C12_G(t) + RoundDiv(lon.v, 1, 15)) % (24 * Scale)

InDegrees(u) == IsKnownUnit(u) /\ MemberOf(u).v = DEG

BelowPole(lat) == \A v \in NumbersOf(lat) : Abs(v) < Const(90, 1)

C13_SunAnglesRange ==
    (/\ Done("sun_angles") /\ ret.t = "tuple" /\ InDegrees(call.units)
     /\ BelowPole(call.lat))
    => /\ \A z \in NumbersOf(ret.items[1]) : ~isnan(z) => 0 <= z /\ z <= Const(180, 1)
       /\ \A a \in NumbersOf(ret.items[2]) : ~isnan(a) => InTurn(a, DEG)
       /\ (call.time.t = "float" /\ ~isnan(call.time.v)) =>
             \A v \in NumbersOf(ret.items[1]) \cup NumbersOf(ret.items[2]) : ~isnan(v)

\* the same intervals for the numbers that are returned, NaN aside
C13_SunAnglesRangeButNaN ==
    (/\ Done("sun_angles") /\ ret.t = "tuple" /\ InDegrees(call.units)
     /\ BelowPole(call.lat))
    => /\ \A z \in NumbersOf(ret.items[1]) : ~isnan(z) => 0 <= z /\ z <= Const(180, 1)
       /\ \A a \in NumbersOf(ret.items[2]) : ~isnan(a) => InTurn(a, DEG)

\* an afternoon sun in the west: arctan2 is negative and the reduction acts
C13_Witness ==
    /\ Done("sun_angles") /\ call.units = Unit(DEG)
    /\ call.time = Float(Const(1, 4)) /\ call.lat = Float(Const(525, 10))
    /\ call.lon = Float(0)
    /\ ret.t = "tuple" /\ ret.items[2].v > Const(180, 1) /\ ret.items[1].v > 0

(***************************************************************************)
(* C14.  Vectorised and scalar evaluation agree and keep the shape:        *)
(* sun_angles of a list or array of N times and a scalar (lat, lon)        *)
(* returns N zeniths and N azimuths, element i being that of sun_angles of *)
(* the time i alone; to_julday of a list or array of N timestamps returns  *)
(* N day counts, element i being that of the timestamp i alone, and        *)
(* to_julday of a scalar returns a scalar.                                 *)
(***************************************************************************)
IsTimestamp(x) == x.t \in {"datetime", "datetime64"}

\* a list or an array of times: their number and the time i
IsTimes(x) ==
    \/ x.t = "ndarray" /\ x.kind = "f"
    \/ /\ (x.t = "list" \/ (x.t = "ndarray" /\ x.kind \in {"M", "O"}))
       /\ \/ \A i \in DOMAIN x.items : x.items[i].t = "float"
          \/ \A i \in DOMAIN x.items : IsTimestamp(x.items[i])

TimeAt(x, i) == IF x.t = "ndarray" /\ x.kind = "f" THEN Float(x.v[i]) ELSE x.items[i]

IsArrayOf(r, n) == r.t = "ndarray" /\ r.kind = "f" /\ Len(r.v) = n

C14_SunAnglesAt(c, i, k) == sun_angles(TimeAt(c.time, i), c.lat, c.lon, c.units).items[k]

C14_VectorisedAgrees ==
    /\ (/\ Done("sun_angles") /\ IsTimes(call.time) /\ IsKnownUnit(call.units)
        /\ call.lat.t = "float" /\ call.lon.t = "float")
       => /\ ret.t = "tuple"
          /\ \A k \in 1..2 :
                /\ IsArrayOf(ret.items[k], SizeOf(call.time))
                /\ \A i \in 1..SizeOf(call.time) :
                      Float(ret.items[k].v[i]) = C14_SunAnglesAt(call, i, k)
    /\ (Done("to_julday") /\ IsTimes(call.time))
       => /\ IsArrayOf(ret, SizeOf(call.time))
          /\ \A i \in 1..SizeOf(call.time) :
                Float(ret.v[i]) = to_julday(TimeAt(call.time, i), call.epoch)
    /\ (Done("to_julday") /\ (call.time.t = "float" \/ IsTimestamp(call.time)))
       => ret.t = "float"

\* two timestamps of different types, a quarter day apart
C14_Witness ==
    /\ Done("sun_angles") /\ call.time = List(<<Datetime(NoonS), Datetime64("h", 36)>>)
    /\ call.lat = Float(Const(525, 10)) /\ call.lon = Float(0) /\ call.units = Unit(DEG)
    /\ ret.t = "tuple" /\ IsArrayOf(ret.items[1], 2)
    /\ ret.items[1].v[1] # ret.items[1].v[2]

(***************************************************************************)
(* C15.  equation_of_time(t) in hours is the Greenwich mean sidereal time  *)
(* minus the right ascension, both in hours, wrapped by remainder(x + 12,  *)
(* 24) - 12; it lies in [-12, 12) and is hour_angle(time=t) without a      *)
(* longitude, for every time t.                                            *)
(***************************************************************************)
\* remainder(x + 12, 24) - 12 on the grid
C15_Wrap(m, r) ==
    IF isnan(m) \/ isnan(r) THEN NaN
    ELSE ((m - r + Const(12, 1)) % Const(24, 1)) - Const(12, 1)

C15_EquationOfTime ==
    (Done("equation_of_time") /\ UnitEq(call.units, HR)) =>
        /\ ret = Map2(C15_Wrap, mean_sidereal_time(call.time, None, Unit(HR)),
                      right_ascension(call.time, None, None, Unit(HR)))
        /\ ret = hour_angle(call.time, None, None, None, Unit(HR))
        /\ IsNumber(ret) =>
              \A v \in NumbersOf(ret) :
                  ~isnan(v) => -Const(12, 1) <= v /\ v < Const(12, 1)

\* a time whose sidereal time is more than 12 hours ahead of the right
\* ascension, so that the wrap acts
C15_Witness ==
    /\ Done("equation_of_time") /\ UnitEq(call.units, HR)
    /\ call.time.t = "float" /\ ret.t = "float" /\ ~isnan(ret.v)
    /\ mean_sidereal_time(call.time, None, Unit(HR)).v
          - right_ascension(call.time, None, None, Unit(HR)).v >= Const(12, 1)

(***************************************************************************)
(* C16.  At local solar noon, a longitude where the local hour angle is 0  *)
(* (mean_sidereal_time(t, lon) is right_ascension(t) in hours), sun_angles *)
(* returns the azimuth 180 degrees whenever the latitude of the observer   *)
(* is greater than the declination of the sun.  As stated: exactly 180,    *)
(* for every such latitude.  As amended: for every such latitude below the *)
(* pole, 180 degrees up to the rounding of the hour angle that sun_angles  *)
(* computes in radians.                                                    *)
(***************************************************************************)
\* a call of sun_angles in degrees at local noon with the sun to the south
AtNoonSouth ==
    /\ Done("sun_angles") /\ InDegrees(call.units)
    /\ call.time.t = "float" /\ ~isnan(call.time.v)
    /\ call.lat.t = "float" /\ call.lon.t = "float"
    /\ hour_angle(call.time, call.lon, None, None, Unit(HR)) = Float(0)
    /\ call.lat.v > declination(call.time, None, None, Unit(DEG)).v

\* the rounding allowed to the azimuth: half a degree
AziTol == Const(1, 2)

C16_NoonAzimuthExact == AtNoonSouth => ret.items[2] = Float(Const(180, 1))

C16_NoonAzimuth ==
    (AtNoonSouth /\ BelowPole(call.lat)) =>
        /\ ret.t = "tuple" /\ ret.items[2].t = "float"
        /\ Abs(ret.items[2].v - Const(180, 1)) <= AziTol

\* noon at the epoch, latitude 52.5: the azimuth is just off 180
C16_Witness ==
    /\ AtNoonSouth /\ call.time = Float(0) /\ call.lat = Float(Const(525, 10))
    /\ ret.items[2].v # Const(180, 1)
    /\ Abs(ret.items[2].v - Const(180, 1)) <= AziTol

(***************************************************************************)
(* C17.  sun_angles never raises for an observer at a pole (lat = 90 or    *)
(* -90 degrees), and the zenith it returns is a valid angle in [0, 180]    *)
(* degrees.  As stated: the azimuth returned is indeterminate, a NaN or a  *)
(* result of an infinite quotient (0 or 180 degrees).  As amended: the     *)
(* azimuth returned is a number in [0, 360), of no meaning; it is not NaN, *)
(* because the cos_lat the quotient is taken by is not zero.               *)
(***************************************************************************)
\* a call of sun_angles in degrees for an observer at a pole, at a time
\* that is a number
AtPole ==
    /\ Done("sun_angles") /\ InDegrees(call.units)
    /\ call.time.t = "float" /\ ~isnan(call.time.v)
    /\ call.lat.t = "float" /\ Abs(call.lat.v) = Const(90, 1) /\ call.lon.t = "float"

ValidZenith == ret.items[1].t = "float" /\ 0 <= ret.items[1].v /\ ret.items[1].v <= Const(180, 1)

Ephemeris ==
    {"ecliptic_longitude", "obliquity_of_ecliptic", "right_ascension", "declination",
     "mean_sidereal_time", "equation_of_time", "hour_angle", "sun_angles",
     "earth_sun_distance"}

\* a time that is NaN or an array of floats with a NaN
HasNaN(x) == IsNumber(x) /\ \E v \in NumbersOf(x) : isnan(v)

\* a call whose other arguments are in order: a known unit, and a
\* longitude and a latitude that are absent or one number
C18_Applies(c) ==
    /\ c.f \in Ephemeris /\ HasNaN(c.time)
    /\ c.f # "earth_sun_distance" => IsKnownUnit(c.units)
    /\ c.f \in {"mean_sidereal_time", "hour_angle"} => c.lon.t \in {"None", "float"}
    /\ c.f = "sun_angles" => c.lat.t = "float" /\ c.lon.t = "float"
    /\ c.f = "hour_angle" => c.mst.t = "None" /\ c.ra.t = "None"

\* the call c with the time t in place of its own
C18_At(c, t) ==
    CASE c.f = "ecliptic_longitude" -> ecliptic_longitude(t, c.units)
      [] c.f = "obliquity_of_ecliptic" -> obliquity_of_ecliptic(t, c.units)
      [] c.f = "right_ascension" -> right_ascension(t, None, None, c.units)
      [] c.f = "declination" -> declination(t, None, None, c.units)
      [] c.f = "mean_sidereal_time" -> mean_sidereal_time(t, c.lon, c.units)
      [] c.f = "equation_of_time" -> equation_of_time(t, c.units)
      [] c.f = "hour_angle" -> hour_angle(t, c.lon, None, None, c.units)
      [] c.f = "sun_angles" -> sun_angles(t, c.lat, c.lon, c.units)
      [] c.f = "earth_sun_distance" -> earth_sun_distance(t)

\* the quantities of a result: the two of a tuple, or the result itself
PartsOf(r) == IF r.t = "tuple" THEN r.items ELSE <<r>>

C18_NaNPropagates ==
    (pc = "done" /\ C18_Applies(call)) =>
        /\ ~IsExc(ret)
        /\ \A k \in DOMAIN PartsOf(ret) :
              IF call.time.t = "float" THEN PartsOf(ret)[k] = Float(NaN)
              ELSE /\ IsArrayOf(PartsOf(ret)[k], Len(call.time.v))
                   /\ \A i \in DOMAIN call.time.v :
                         IF isnan(call.time.v[i]) THEN isnan(PartsOf(ret)[k].v[i])
                         ELSE Float(PartsOf(ret)[k].v[i])
                                  = PartsOf(C18_At(call, Float(call.time.v[i])))[k]

\* sun_angles of an array of a NaN and a summer day
C18_Witness ==
    /\ Done("sun_angles") /\ C18_Applies(call) /\ call.time.t = "ndarray"
    /\ ret.t = "tuple"
    /\ isnan(ret.items[1].v[1]) /\ isnan(ret.items[2].v[1])
    /\ ~isnan(ret.items[1].v[2]) /\ ~isnan(ret.items[2].v[2])

(***************************************************************************)
(* C19: the two syntaxes for environment variables are equivalent: for     *)
(* every variable NAME defined in the environment, whatever its value,     *)
(* PathFormatter('$NAME')() and PathFormatter('{ENV[NAME]}')() return the  *)
(* same path.                                                              *)
(***************************************************************************)
\* the format strings $NAME and {ENV[NAME]}
DollarFormat(name) == <<"$">> \o name

EnvFormat(name) == <<"{", "E", "N", "V", "[">> \o name \o <<"]", "}">>

\* PathFormatter(fmt)() as the call c is set up
WithFormat(c, fmt) ==
    vformat(PathFormatter(fmt, c.expandvars, c.expanduser, c.env_defaults, c.environ),
            c.args, c.kwargs)

\* PathFormatter('$NAME')() was called, NAME being defined
DollarCall(name) ==
    /\ Done("PathFormatter")
    /\ name \in DOMAIN call.environ
    /\ call.fmt = DollarFormat(name)
    /\ call.expandvars /\ call.expanduser /\ call.env_defaults = None
    /\ call.args = <<>>

Names == {X, <<"1">>, HOME}

C19_EnvSyntaxesAgree ==
    \A name \in Names : DollarCall(name) => ret = WithFormat(call, EnvFormat(name))

\* a value without braces that starts with no tilde
IsPlain(v) ==
    /\ \A i \in DOMAIN v : v[i] \notin {"{", "}"}
    /\ (v = <<>> \/ v[1] # "~")

\* the same for the names that are no number and the values that the
\* formatting and the expansion of the user leave as they are
C19_EnvSyntaxesAgreePlain ==
    \A name \in Names :
        DollarCall(name) /\ ~IsDigits(name) /\ IsPlain(call.environ[name])
            => ret = WithFormat(call, EnvFormat(name))

\* the value of X is {0}: $X raises, {ENV[X]} is the path {0}
C19_Witness ==
    /\ DollarCall(X)
    /\ call.environ[X] = <<"{", "0", "}">>
    /\ IsExc(ret)
    /\ WithFormat(call, EnvFormat(X)) = Path(Str(<<"{", "0", "}">>))

\* a plain value: both give the path /a/D
C19_WitnessPlain ==
    /\ DollarCall(X)
    /\ call.environ[X] = <<"/", "a", "/", "/", "D", "/">>
    /\ ret = [t |-> "path", root |-> <<"/">>, parts |-> << <<"a">>, <<"D">> >>]
    /\ ret = WithFormat(call, EnvFormat(X))

(***************************************************************************)
(* C20: PathFormatter applies its conversion characters to the value of    *)
(* the field before formatting: for every str s, '{0!l}' yields            *)
(* Path(s.lower()), '{0!u}' Path(s.upper()), '{0!t}' Path(s.title()) and   *)
(* '{0!c}' Path(s.capitalize()); any other conversion character is handled *)
(* as by string.Formatter: s is str(), r and a are repr(), and any other   *)
(* is a ValueError.                                                        *)
(***************************************************************************)
\* PathFormatter('{0!c}')(s) was called
ConvCall(c) ==
    /\ Done("PathFormatter")
    /\ call.fmt = <<"{", "0", "!", c, "}">>
    /\ Len(call.args) = 1

ConvChars == {"l", "u", "t", "c", "s", "r", "a", "x"}

C20_ConversionChars ==
    \A c \in ConvChars :
        ConvCall(c) =>
            CASE c = "l" -> ret = Path(Str(lower(call.args[1].chars)))
              [] c = "u" -> ret = Path(Str(upper(call.args[1].chars)))
              [] c = "t" -> ret = Path(Str(title(call.args[1].chars)))
              [] c = "c" -> ret = Path(Str(capitalize(call.args[1].chars)))
              [] c = "s" -> ret = Path(call.args[1])
              [] c \in {"r", "a"} ->
                    ret = Path(Str(<<"'">> \o call.args[1].chars \o <<"'">>))
              [] OTHER -> IsExc(ret) /\ ret.exc = "ValueError"

\* 'aD1'.title() is 'Ad1'
C20_Witness ==
    /\ ConvCall("t")
    /\ call.args[1] = Str(<<"a", "D", "1">>)
    /\ ret = [t |-> "path", root |-> <<>>, parts |-> << <<"A", "d", "1">> >>]

(***************************************************************************)
(* C21: calling a PathFormatter is the same as calling its format method:  *)
(* for every format string and all positional and keyword arguments,       *)
(* PathFormatter(fmt) called with them equals PathFormatter(fmt).format    *)
(* called with them, both a path or both the same error.                   *)
(***************************************************************************)
\* the formatter of the call c
SelfOf(c) == PathFormatter(c.fmt, c.expandvars, c.expanduser, c.env_defaults, c.environ)

C21_CallIsFormat ==
    /\ Done("PathFormatter") => ret = format(SelfOf(call), call.args, call.kwargs)
    /\ Done("format") => ret = PathFormatter_call(SelfOf(call), call.args, call.kwargs)

\* the test: PathFormatter('{0}').format(s) is the path s, as the call is
C21_Witness ==
    /\ Done("format")
    /\ call.fmt = <<"{", "0", "}">>
    /\ call.args = <<Str(<<"a", "D">>)>>
    /\ ret = [t |-> "path", root |-> <<>>, parts |-> << <<"a", "D">> >>]
    /\ ret = PathFormatter_call(SelfOf(call), call.args, call.kwargs)

\* and an error is the same error
C21_WitnessError ==
    /\ Done("PathFormatter")
    /\ call.fmt = <<"{", "0", "!", "x", "}">>
    /\ IsExc(ret) /\ ret.exc = "ValueError"
    /\ ret = format(SelfOf(call), call.args, call.kwargs)

(***************************************************************************)
(* C22: the bit operations realise their mathematical definitions for      *)
(* every non-negative int v and bit position pos: testbit returns          *)
(* v AND (1 << pos), setbit v OR (1 << pos), clearbit v AND NOT (1 << pos) *)
(* and togglebit v XOR (1 << pos); hence testbit(setbit(v, pos), pos) is   *)
(* not zero and testbit(clearbit(v, pos), pos) is zero.                    *)
(***************************************************************************)
\* bit pos of the non-negative v is set
HasBit(v, pos) == (v \div (2 ^ pos)) % 2 = 1

\* the definitions, in arithmetic
MathTest(v, pos) == IF HasBit(v, pos) THEN 2 ^ pos ELSE 0

MathSet(v, pos) == IF HasBit(v, pos) THEN v ELSE v + 2 ^ pos

MathClear(v, pos) == IF HasBit(v, pos) THEN v - 2 ^ pos ELSE v

MathToggle(v, pos) == IF HasBit(v, pos) THEN v - 2 ^ pos ELSE v + 2 ^ pos

\* a bit operation was called with a bit position
BitCall(f) == Done(f) /\ call.v >= 0 /\ call.pos >= 0

\* the three that change a bit
C22_BitOperationsButTest ==
    /\ BitCall("setbit") => ret = PyInt(MathSet(call.v, call.pos))
    /\ BitCall("clearbit") => ret = PyInt(MathClear(call.v, call.pos))
    /\ BitCall("togglebit") => ret = PyInt(MathToggle(call.v, call.pos))

C22_BitOperations ==
    /\ C22_BitOperationsButTest
    /\ BitCall("testbit") => ret = PyInt(MathTest(call.v, call.pos))
    /\ BitCall("setbit") =>
            /\ ~IsExc(testbit(ret.v, call.pos))
            /\ testbit(ret.v, call.pos) # PyInt(0)
    /\ BitCall("clearbit") => testbit(ret.v, call.pos) = PyInt(0)

\* testbit(5, 0) raises NameError
C22_Witness ==
    /\ BitCall("testbit")
    /\ call.v = 5 /\ call.pos = 0
    /\ IsExc(ret) /\ ret.exc = "NameError"

\* setbit(5, 1) is 7
C22_WitnessSet ==
    /\ BitCall("setbit")
    /\ call.v = 5 /\ call.pos = 1
    /\ ret = PyInt(7)

(***************************************************************************)
(* C23: apparent_time returns None for every supported time, every         *)
(* longitude and every unit: the equation of time it computes is dropped   *)
(* and has no influence on the result; the only effect of the arguments is *)
(* that a time that is not supported still raises.                         *)
(***************************************************************************)
\* a time to_julday documents: a float, a timestamp, a list or an array of
\* them
IsSupportedTime(x) ==
    \/ x.t = "float"
    \/ IsTimestamp(x)
    \/ x.t \in {"list", "ndarray"} /\ IsTimes(x)

C23_NullResult ==
    Done("apparent_time") =>
        /\ IsSupportedTime(call.time) => ret = None
        /\ IsUnsupportedTime(call.time) => IsExc(ret)

\* the same, but that every time to_julday raises on raises here, and every
\* other gives None
C23_NullResultOrError ==
    Done("apparent_time") =>
        /\ IsSupportedTime(call.time) => ret = None
        /\ IF IsExc(to_julday(call.time, EPOCH_JD2000_0))
           THEN ret = to_julday(call.time, EPOCH_JD2000_0)
           ELSE ret = None

\* apparent_time([None]) returns None
C23_Witness ==
    /\ Done("apparent_time")
    /\ call.time = List(<<None>>)
    /\ IsUnsupportedTime(call.time)
    /\ ret = None

\* a supported time with a longitude and a unit that names none
C23_WitnessNone ==
    /\ Done("apparent_time")
    /\ call.time = Float(Const(1725, 10))
    /\ call.lon = Float(Const(15, 1))
    /\ ~IsKnownUnit(call.units)
    /\ ~IsExc(equation_of_time(call.time, Unit(HR)))
    /\ ret = None

(***************************************************************************)
(* C24: without a time hour_angle takes mst in hours and ra in radians: it *)
(* returns remainder((mst - ra*12/pi) + 12, 24) - 12 hours and ignores     *)
(* lon; hence hour_angle(time=t, lon=x) equals                             *)
(* hour_angle(mst=mean_sidereal_time(t, x), ra=right_ascension(t)) with    *)
(* the two at their default units; with a time, mst and ra are ignored.    *)
(***************************************************************************)
\* ra radians in hours: ra * 12 / pi
C24_Hours(ra) == IF isnan(ra) THEN NaN ELSE RoundDiv(ra, 12 * Scale, pi)

\* hour_angle was called for hours
HoursCall == Done("hour_angle") /\ UnitEq(call.units, HR)

C24_WitnessTime ==
    /\ HoursCall
    /\ call.time.t = "float" /\ call.lon.t = "float"
    /\ call.mst = Float(0) /\ call.ra = Float(pi)
    /\ ret.t = "float" /\ ~isnan(ret.v)
    /\ ret # hour_angle(None, None, call.mst, call.ra, call.units)

(***************************************************************************)
(* C25: to_julday accepts a day count only as floating point: a Python or  *)
(* numpy integer scalar, a bool, and a list or array of integers are       *)
(* rejected with TypeError and not taken as days since the epoch, whereas  *)
(* a float scalar, a float array or a list of floats is returned with its  *)
(* values unchanged, whatever the epoch.                                   *)
(***************************************************************************)
NotSupported == Raise("TypeError", "Type of time argument not supported")

\* a list or an array of at least one element, all of them Python ints
IsIntegers(x) ==
    \/ x.t = "ndarray" /\ x.kind = "i" /\ Len(x.v) >= 1
    \/ /\ x.t = "list" /\ Len(x.items) >= 1
       /\ \A i \in DOMAIN x.items : x.items[i].t = "int"

\* a list of at least one float
IsFloats(x) ==
    /\ x.t = "list" /\ Len(x.items) >= 1
    /\ \A i \in DOMAIN x.items : x.items[i].t = "float"

C25_DayCountIsFloat ==
    Done("to_julday") =>
        /\ call.time.t \in {"int", "int64", "bool"} => ret = NotSupported
        /\ IsIntegers(call.time) => ret = NotSupported
        /\ (call.time.t = "float" \/ (call.time.t = "ndarray" /\ call.time.kind = "f")) =>
                ret = call.time
        /\ IsFloats(call.time) =>
                /\ IsArrayOf(ret, Len(call.time.items))
                /\ \A i \in DOMAIN call.time.items : ret.v[i] = call.time.items[i].v

\* to_julday([0, 0]) with an epoch of its own raises
C25_Witness ==
    /\ Done("to_julday")
    /\ call.time = List(<<PyInt(0), PyInt(0)>>)
    /\ call.epoch # EPOCH_JD2000_0
    /\ ret = NotSupported

\* to_julday([1.5, 0.0]) with an epoch of its own is the array [1.5, 0.0]
C25_WitnessFloats ==
    /\ Done("to_julday")
    /\ call.time = List(<<Float(Const(3, 2)), Float(0)>>)
    /\ call.epoch # EPOCH_JD2000_0
    /\ ret = NDArray("f", <<Const(3, 2), 0>>)

(***************************************************************************)
(* C26: read_requests with expand_children replaces each request that has  *)
(* a key 'request_children', at its position in the list, by one request   *)
(* per child in the order of the children, each being the fields of the    *)
(* parent without 'request_children' overlaid by the fields of the child   *)
(* (the child wins on a shared key); a request without children is passed  *)
(* through unchanged; the order of the requests read is kept and no        *)
(* request returned has the key 'request_children'.  The requests read are *)
(* those of the file with their targets expanded.                          *)
(***************************************************************************)
\* the requests read by the call c, targets expanded
RequestsRead(c) ==
    IF c.expand_user \/ c.expand_vars
    THEN expand_targets(IF c.js.t = "list" THEN c.js.items ELSE <<c.js>>,
                        c.expand_user, c.expand_vars, c.environ)
    ELSE IF c.js.t = "list" THEN c.js.items ELSE <<c.js>>

HasChildren(r) == "request_children" \in DOMAIN r.m

ChildrenOf(r) == r.m["request_children"].items

\* the number of requests the request r becomes
SizeOfRequest(r) == IF HasChildren(r) THEN Len(ChildrenOf(r)) ELSE 1

RECURSIVE SizeUpTo(_, _)
\* the number of requests the first n of reqs become
SizeUpTo(reqs, n) ==
    IF n = 0 THEN 0 ELSE SizeUpTo(reqs, n - 1) + SizeOfRequest(reqs[n])

\* e is the parent p under its child ch
IsOverlay(e, p, ch) ==
    /\ DOMAIN e.m = (DOMAIN p.m \ {"request_children"}) \cup DOMAIN ch.m
    /\ \A k \in DOMAIN e.m : e.m[k] = IF k \in DOMAIN ch.m THEN ch.m[k] ELSE p.m[k]

\* read_requests returned a list for a file of requests, children expanded
ExpandCall ==
    /\ Done("read_requests")
    /\ call.expand_children
    /\ call.js.t \in {"list", "mapping"}

\* the requests returned are, in the order read, the children of the
\* parents under their parent and the other requests as they are
ChildrenInPlace(reqs, out) ==
    /\ Len(out) = SizeUpTo(reqs, Len(reqs))
    /\ \A i \in DOMAIN reqs :
          IF HasChildren(reqs[i])
          THEN \A j \in DOMAIN ChildrenOf(reqs[i]) :
                  IsOverlay(out[SizeUpTo(reqs, i - 1) + j], reqs[i], ChildrenOf(reqs[i])[j])
          ELSE out[SizeUpTo(reqs, i - 1) + 1] = reqs[i]

C26_ExpandChildren ==
    ExpandCall =>
        /\ ret.t = "list"
        /\ ChildrenInPlace(RequestsRead(call), ret.items)
        /\ \A n \in DOMAIN ret.items : ~HasChildren(ret.items[n])

\* the same, a request returned having the key 'request_children' where
\* the child it comes from has it
C26_ExpandChildrenOnce ==
    ExpandCall =>
        /\ ret.t = "list"
        /\ ChildrenInPlace(RequestsRead(call), ret.items)
        /\ \A i \in DOMAIN RequestsRead(call) :
              LET r == RequestsRead(call)[i] IN
              IF HasChildren(r)
              THEN \A j \in DOMAIN ChildrenOf(r) :
                      HasChildren(ret.items[SizeUpTo(RequestsRead(call), i - 1) + j])
                          <=> HasChildren(ChildrenOf(r)[j])
              ELSE ~HasChildren(ret.items[SizeUpTo(RequestsRead(call), i - 1) + 1])

\* a parent of two children before a request with a target: three requests,
\* the year of the first child, the target of the second child as it is in
\* the file, the target of the parent expanded
C26_Witness ==
    /\ ExpandCall
    /\ call.expand_user /\ call.expand_vars
    /\ call.js.t = "list"
    /\ Len(call.js.items) = 2
    /\ call.js.items[1].m["dataset"] = Str(<<"c">>)
    /\ call.js.items[2].m["dataset"] = Str(<<"b">>)
    /\ Len(ret.items) = 3
    /\ ret.items[1].m["year"] = Str(<<"2">>)
    /\ ret.items[1].m["target"] = Str(<<"/", "h">>)
    /\ ret.items[2].m["year"] = Str(<<"1">>)
    /\ ret.items[2].m["target"] = Str(<<"$", "X", "/", "d">>)
    /\ ret.items[3].m["target"] = Str(<<"/", "h", "/", "/", "a">>)
    /\ \A n \in 1..3 : ~HasChildren(ret.items[n])

\* a child that is a parent itself keeps its children
C26_WitnessNested ==
    /\ ExpandCall
    /\ call.js.t = "list"
    /\ Len(call.js.items) = 1
    /\ call.js.items[1].m["dataset"] = Str(<<"e">>)
    /\ Len(ret.items) = 1
    /\ HasChildren(ret.items[1])
====
